---- MODULE Spec2Model ----
(***************************************************************************)
(* Hardware motion and liquid-handling engine of the OT2 (opentrons        *)
(* hardware_control.API over the Simulator backend contract).             *)
(*                                                                         *)
(* Lengths are integers in hundredths of a millimetre (Mm(1) = 100), so    *)
(* that SHAKE_OFF_TIPS_DISTANCE = 2.25 mm is exact.  Volumes are integer   *)
(* microlitres.                                                            *)
(*                                                                         *)
(* Every public coroutine of API is one action.  Inside an action the      *)
(* coroutine body is a chain of steps over a record s:                     *)
(*   s.pos    API._current_position      s.bpos  Simulator._position       *)
(*   s.instr  API._attached_instruments  s.lmm   API._last_moved_mount     *)
(*   s.err    the exception in flight ("none" when there is none)          *)
(*   s.issued the backend commands issued so far by this call              *)
(*   s.n      how many of them were motion commands                        *)
(*   s.ret    the value the call returns (<<>>: nothing)                   *)
(*   s.warned whether the call logged an out-of-bounds warning            *)
(* A step is skipped when an exception is in flight, which is how an       *)
(* exception propagates to the caller.  The f-th motion command of a call  *)
(* raises (f = 0: none does).  Outcome(s, c, f) is the record call c       *)
(* leaves when it starts from s; the action of c commits its state part.   *)
(* What a call raises, returns and sends to the backend is read from its   *)
(* outcome, in every reachable state and for every input.                  *)
(*                                                                         *)
(* TaskSpec is the same coordinator with two tasks on the event loop.  A   *)
(* task runs one public coroutine; its steps are the stretches of code     *)
(* between the points where a coroutine can be suspended: waiting for the  *)
(* motion lock, and waiting for the backend while holding it.              *)
(*                                                                         *)
(* ProbeSpec, SettingsSpec, RescanSpec and PauseSpec start from a homed    *)
(* robot and study tip probing, instrument offsets, instrument rescans and *)
(* pause/resume.  PollerSpec is the thermocycler driver's serial poller:   *)
(* its thread, its queue and fifos, and the callers that submit commands.  *)
(* QuerySpec adds current_position as a task and backend commands that     *)
(* raise; MovesSpec runs move_to and move_rel calls one after the other in *)
(* each task, the lock going to the task that waits for it; RetrySpec is   *)
(* the retry loop of the thermocycler driver's _send_command.              *)
(***************************************************************************)
EXTENDS Integers, Sequences, FiniteSets, TLC

VARIABLES
    _current_position,     \* API._current_position: {} or Axis -> deck coordinate
    _attached_instruments, \* API._attached_instruments: Mount -> Pipette or None
    _last_moved_mount,     \* API._last_moved_mount
    gantry_calibration,    \* config.gantry_calibration, fixed at construction
    _position,             \* Simulator._position: Axis -> raw coordinate
    sim_attached,          \* Simulator._attached_instruments, fixed at construction
    failures,              \* how many backend commands have raised so far
    _motion_lock,          \* API._motion_lock: the task holding it, or NoTask
    tasks,                 \* the coroutines running on the loop, by task
    instrument_offset,     \* config.instrument_offset: mount -> class -> offset
    _strict_attached,      \* Simulator._strict_attached, fixed at construction
    _run_flag,             \* Simulator._run_flag: whether the Event is set
    paused,                \* pause() was called and neither resume() nor halt()
                           \* since; kept to state the pause contract, the
                           \* program has no such field
    tc                     \* the thermocycler's TCPoller: its queue, its fifos,
                           \* its thread, and what reached the device; in
                           \* RetrySpec, its connection and the command it
                           \* is sending

vars == <<_current_position, _attached_instruments, _last_moved_mount,
          gantry_calibration, _position, sim_attached, failures,
          _motion_lock, tasks, instrument_offset, _strict_attached,
          _run_flag, paused, tc>>

\* the robot settings, the backend's switches and the thermocycler's poller,
\* which the motion and liquid-handling calls leave alone
settings == <<instrument_offset, _strict_attached, _run_flag, paused, tc>>

----------------------------------------------------------------------------
(* Bounds of the model *)

\* config.max_volume of the attached pipette models, in microlitres
MaxVolume == 2
\* the largest number of press cycles pick_up_tip is called with
MaxPresses == 1
\* the backend raises at most this many times in a behaviour
MaxFailures == 1
\* the depth schedule of pick_up_tip is examined for 1..PressesChecked presses
PressesChecked == 3
\* the callers submit at most this many commands to the thermocycler
MaxCommands == 2
\* the thermocycler is written to at most this many times, status updates
\* included
MaxWrites == 3
\* the thermocycler's connection is written to, closed or opened at most
\* this many times for one command
MaxEvents == 9

----------------------------------------------------------------------------
(* Units, axes and mounts *)

Mm(x) == x * 100

Mounts == {"LEFT", "RIGHT"}
NoMount == "None"

Axes == {"X", "Y", "Z", "A", "B", "C"}
\* Axis is an enum ordered X, Y, Z, A, B, C
AxisOrder == <<"X", "Y", "Z", "A", "B", "C">>

gantry_axes == {"X", "Y", "Z", "A"}
by_mount(mount) == IF mount = "LEFT" THEN "Z" ELSE "A"
of_plunger(mount) == IF mount = "LEFT" THEN "B" ELSE "C"

\* dict.update: the entries of d2 over those of d1
Update(d1, d2) ==
    [ax \in (DOMAIN d1) \cup (DOMAIN d2) |->
        IF ax \in DOMAIN d2 THEN d2[ax] ELSE d1[ax]]

\* the empty dict
EmptyCache == [ax \in {} |-> 0]

\* the keys of an OrderedDict built in axis order, as a sequence
RECURSIVE KeysFrom(_, _)
KeysFrom(d, i) ==
    IF i > Len(AxisOrder) THEN <<>>
    ELSE (IF AxisOrder[i] \in DOMAIN d THEN <<AxisOrder[i]>> ELSE <<>>)
         \o KeysFrom(d, i + 1)
Keys(d) == KeysFrom(d, 1)

----------------------------------------------------------------------------
(* Source constants *)

PICK_UP_SPEED == 30
SHAKE_OFF_TIPS_SPEED == 50
\* an optional argument is <<>> (None) or <<value>>
NoSpeed == <<>>
NoVolume == <<>>

SHAKE_OFF_TIPS_DISTANCE == 225
DROP_TIP_RELEASE_DISTANCE == 2000
\* retract(self._last_moved_mount, 10): 10 mm
RETRACT_MARGIN == 1000

HOME_POSITION ==
    [ax \in Axes |->
        CASE ax = "X" -> Mm(418) [] ax = "Y" -> Mm(353)
          [] ax = "Z" -> Mm(218) [] ax = "A" -> Mm(218)
          [] ax = "B" -> Mm(19)  [] ax = "C" -> Mm(19)]

----------------------------------------------------------------------------
(* Configuration: robot_configs and pipette_config *)

\* An affine deck -> raw map: raw = (x + t1, y + t2, z + skew * x + t3).  The
\* skew term is the non-parallel-plane correction of section 4.2.
Calibrations ==
    { [t |-> <<Mm(1), Mm(2), Mm(3)>>, skew |-> 1] }

mount_offset == <<Mm(-34), 0, 0>>

\* config.instrument_offset as robot_configs builds it: no correction for
\* either class of pipette on either mount
PipetteClasses == {"single", "multi"}
DefaultOffsets == [mount \in {"LEFT", "RIGHT"} |-> [cls \in PipetteClasses |-> <<0, 0, 0>>]]

PipetteModels == {"p300_single", "p1000_single"}

pipette_config(model) ==
    [max_volume |-> MaxVolume,
     plunger_positions |->
        [top |-> Mm(19), bottom |-> Mm(2), blow_out |-> 0, drop_tip |-> Mm(-4)],
     pick_up_distance |-> Mm(10),
     plunger_current |-> 5, pick_up_current |-> 1, drop_tip_current |-> 7,
     aspirate_flow_rate |-> 15, dispense_flow_rate |-> 30,
     drop_tip_speed |-> 5,
     model_offset |-> <<0, 0, Mm(-25)>>,
     channels |-> IF model = "p300_multi" THEN 8 ELSE 1,
     quirks |-> IF model = "p1000_single" THEN {"needs-pickup-shake"} ELSE {}]

\* Simulator(attached_instruments=...): what the backend scan will find
SimulatorAttached ==
    { [mount \in Mounts |->
          IF mount = "LEFT" THEN "p1000_single" ELSE "None"],
      [mount \in Mounts |->
          IF mount = "RIGHT" THEN "p300_single" ELSE "None"] }

----------------------------------------------------------------------------
(* Coordinate transform: opentrons.util.linal *)

apply_transform(t, p) ==
    <<p[1] + t.t[1], p[2] + t.t[2], p[3] + t.skew * p[1] + t.t[3]>>

apply_reverse(t, r) ==
    <<r[1] - t.t[1], r[2] - t.t[2],
      r[3] - t.t[3] - t.skew * (r[1] - t.t[1])>>

----------------------------------------------------------------------------
(* Pipette state: opentrons.hardware_control.pipette.Pipette *)

None == [model |-> "None"]

\* pip_type = 'multi' if config.channels > 1 else 'single'
pip_type(model) == IF pipette_config(model).channels > 1 THEN "multi" ELSE "single"

Pipette(model, inst_offset_config) ==
    [model |-> model, current_volume |-> 0, has_tip |-> FALSE,
     current_tip_length |-> 0,
     instrument_offset |-> inst_offset_config[pip_type(model)]]

config(p) == pipette_config(p.model)

available_volume(p) == config(p).max_volume - p.current_volume
ok_to_add_volume(p, volume_incr) ==
    p.current_volume + volume_incr <= config(p).max_volume
set_current_volume(p, new_volume) == [p EXCEPT !.current_volume = new_volume]
add_current_volume(p, volume_incr) ==
    [p EXCEPT !.current_volume = @ + volume_incr]
remove_current_volume(p, volume_incr) ==
    [p EXCEPT !.current_volume = @ - volume_incr]
add_tip(p, tip_length) ==
    [p EXCEPT !.has_tip = TRUE, !.current_tip_length = tip_length]
remove_tip(p) == [p EXCEPT !.has_tip = FALSE, !.current_tip_length = 0]

\* microlitres per millimetre of plunger travel, per action
ul_per_mm(p, ul, action) == IF action = "aspirate" THEN 2 ELSE 1

\* Pipette.critical_point: TIP degrades to NOZZLE when no tip is attached
critical_point(p, cp_override) ==
    LET tip_length == IF ~p.has_tip \/ cp_override = "NOZZLE"
                      THEN 0 ELSE p.current_tip_length
        offs == config(p).model_offset
    IN  <<offs[1], offs[2], offs[3] - tip_length>>

----------------------------------------------------------------------------
(* The record a call's steps thread through *)

Enter ==
    [pos |-> _current_position, bpos |-> _position,
     instr |-> _attached_instruments, lmm |-> _last_moved_mount,
     err |-> "none", issued |-> <<>>, n |-> 0, ret |-> <<>>,
     warned |-> FALSE]

Raise(s, e) == IF s.err # "none" THEN s ELSE [s EXCEPT !.err = e]

\* the f-th motion command of the call raises
Fails(s, f) == s.n + 1 = f

----------------------------------------------------------------------------
(* Backend: Simulator, plus the failures the backend contract allows *)

\* Simulator.move and Simulator.home: if self._run_flag.is_set(), a warning
\* that the command "would be blocked by pause" is logged; the command is
\* carried out either way
would_be_blocked == _run_flag

\* Simulator.pause, Simulator.resume and Simulator.halt: the flag they leave
flag_after(control) == control # "pause"

\* a motion command that raises leaves the simulated position as it was
backend_motion(s, c, newpos, f) ==
    IF s.err # "none" THEN s
    ELSE IF Fails(s, f)
    THEN [s EXCEPT !.n = @ + 1,
                   !.issued = Append(@, c @@ [ok |-> FALSE]),
                   !.err = "BackendError"]
    ELSE [s EXCEPT !.n = @ + 1,
                   !.issued = Append(@, c @@ [ok |-> TRUE]),
                   !.bpos = newpos]

backend_move(s, target_position, home_flagged_axes, speed, f) ==
    backend_motion(s, [cmd |-> "move", arg |-> target_position,
                       home_flagged_axes |-> home_flagged_axes,
                       speed |-> speed],
                   Update(s.bpos, target_position), f)

backend_home(s, axes, f) ==
    backend_motion(s, [cmd |-> "home", arg |-> axes],
                   [ax \in Axes |-> IF ax \in axes THEN HOME_POSITION[ax]
                                    ELSE s.bpos[ax]], f)

backend_fast_home(s, axis, margin, f) ==
    backend_motion(s, [cmd |-> "fast_home", arg |-> <<axis, margin>>],
                   [s.bpos EXCEPT ![axis] = HOME_POSITION[axis]], f)

backend_probe(s, axis, distance, f) ==
    backend_motion(s, [cmd |-> "probe", arg |-> <<axis, distance>>],
                   [s.bpos EXCEPT ![axis] = @ + distance], f)

backend_set_active_current(s, axis, amp) ==
    IF s.err # "none" THEN s
    ELSE [s EXCEPT !.issued =
            Append(@, [cmd |-> "set_active_current", arg |-> <<axis, amp>>,
                       ok |-> TRUE])]

----------------------------------------------------------------------------
(* Motion coordinator: hardware_control.API *)

_deck_from_smoothie(smoothie_pos) ==
    LET right == <<smoothie_pos["X"], smoothie_pos["Y"],
                   smoothie_pos[by_mount("RIGHT")]>>
        left == <<smoothie_pos["X"], smoothie_pos["Y"],
                  smoothie_pos[by_mount("LEFT")]>>
    IN  [ax \in Axes |->
            CASE ax = "X" -> apply_reverse(gantry_calibration, right)[1]
              [] ax = "Y" -> apply_reverse(gantry_calibration, right)[2]
              [] ax = by_mount("RIGHT") ->
                    apply_reverse(gantry_calibration, right)[3]
              [] ax = by_mount("LEFT") ->
                    apply_reverse(gantry_calibration, left)[3]
              [] OTHER -> smoothie_pos[ax]]

\* self._current_position = self._deck_from_smoothie(smoothie_pos), reached
\* only when the backend call before it returned
cache_from_backend(m) ==
    IF m.err # "none" THEN m
    ELSE [m EXCEPT !.pos = _deck_from_smoothie(m.bpos)]

_critical_point_for(s, mount, cp_override) ==
    IF s.instr[mount] # None /\ cp_override # "MOUNT"
    THEN critical_point(s.instr[mount], cp_override)
    ELSE <<0, 0, 0>>

\* a worker whose except branch re-raises without clearing the cache
move_failed_keeping_cache(s) == s

\* _move, except Exception: the whole cache is cleared
move_failed(s) == [s EXCEPT !.pos = EmptyCache]

\* _move, else: the cache takes the target
move_succeeded(s, target_position) ==
    [s EXCEPT !.pos = Update(@, target_position)]

\* _move, under the motion lock, after self._backend.move
_move_locked(m, target_position) ==
    IF m.err # "none" THEN move_failed(m)
    ELSE move_succeeded(m, target_position)

\* the gantry axes among the keys of the target, in axis order
GantryKeys(keys) == SelectSeq(keys, LAMBDA ax : ax \in gantry_axes)

to_transform(target_position, gkeys) ==
    [i \in 1..Len(gkeys) |-> target_position[gkeys[i]]]

\* enumerate(target_position.keys()): the position of the axis in the dict
IndexOf(keys, ax) == CHOOSE i \in 1..Len(keys) : keys[i] = ax

smoothie_pos(target_position, keys, transformed) ==
    [ax \in DOMAIN target_position |->
        IF ax \in gantry_axes THEN transformed[IndexOf(keys, ax)]
        ELSE target_position[ax]]

\* Simulator.axis_bounds: (0, home + 0.5) for the gantry axes
axis_bounds == [ax \in gantry_axes |-> <<0, HOME_POSITION[ax] + 50>>]

\* smoothie_pos[ax.name] < bounds[ax.name][0] or > bounds[ax.name][1], for
\* some gantry axis of the target
out_of_bounds(smoothie) ==
    \E ax \in DOMAIN smoothie \cap gantry_axes :
        \/ smoothie[ax] < axis_bounds[ax][1]
        \/ smoothie[ax] > axis_bounds[ax][2]

\* a worker that refuses a target outside the bounds
bounds_enforced(s, smoothie) ==
    IF out_of_bounds(smoothie) THEN Raise(s, "ValueError") ELSE s

\* the loop over the axes: self._log.warning("Out of bounds move: ...") and
\* nothing else; the bounds dict has all four gantry axes, which is what
\* _deck_from_smoothie needs to build the limits it prints
bounds_checked(s, smoothie) ==
    IF out_of_bounds(smoothie) THEN [s EXCEPT !.warned = TRUE] ELSE s

\* _move from the bounds on: the check, the backend's move under the lock
_move_sent(s, target_position, smoothie, speed, flagged, f) ==
    _move_locked(
        backend_move(bounds_checked(s, smoothie), smoothie, flagged, speed, f),
        target_position)

\* _move, once the values to transform are picked out of the target
_move_transformed(s, target_position, keys, values, speed, flagged, f) ==
    IF Len(values) # 3 THEN Raise(s, "ValueError")
    ELSE _move_sent(s, target_position,
                    smoothie_pos(target_position, keys,
                                 apply_transform(gantry_calibration, values)),
                    speed, flagged, f)

_move(s, target_position, speed, home_flagged_axes, f) ==
    IF s.err # "none" THEN s
    ELSE _move_transformed(
            s, target_position, Keys(target_position),
            to_transform(target_position, GantryKeys(Keys(target_position))),
            speed, home_flagged_axes, f)

retract(s, mount, margin, f) ==
    cache_from_backend(backend_fast_home(s, by_mount(mount), margin, f))

\* self._last_moved_mount = mount, reached only when the retraction returned
set_last_moved_mount(r, mount) ==
    IF r.err # "none" THEN r ELSE [r EXCEPT !.lmm = mount]

\* a coordinator that records the mount and never retracts the other one
never_retract_mount(s, mount, f) == set_last_moved_mount(s, mount)

_cache_and_maybe_retract_mount(s, mount, f) ==
    IF s.err # "none" THEN s
    ELSE IF mount # s.lmm /\ s.lmm # NoMount
    THEN set_last_moved_mount(retract(s, s.lmm, RETRACT_MARGIN, f), mount)
    ELSE set_last_moved_mount(s, mount)

\* a coordinator that never asks for a home
home_never_needed(s) == FALSE

\* if not self._current_position: raise MustHomeError
must_home(s) == DOMAIN s.pos = {}

\* move_to after _cache_and_maybe_retract_mount: the target and the move
move_to_target(c, mount, abs_position, speed, cp_override, f) ==
    LET offset == IF mount = "LEFT" THEN mount_offset ELSE <<0, 0, 0>>
        cp == _critical_point_for(c, mount, cp_override)
    IN  _move(c,
              [ax \in {"X", "Y", by_mount(mount)} |->
                  CASE ax = "X" -> abs_position[1] - offset[1] - cp[1]
                    [] ax = "Y" -> abs_position[2] - offset[2] - cp[2]
                    [] OTHER -> abs_position[3] - offset[3] - cp[3]],
              speed, TRUE, f)

move_to(s, mount, abs_position, speed, cp_override, f) ==
    IF s.err # "none" THEN s
    ELSE IF must_home(s) THEN Raise(s, "MustHomeError")
    ELSE move_to_target(_cache_and_maybe_retract_mount(s, mount, f),
                        mount, abs_position, speed, cp_override, f)

\* move_rel after _cache_and_maybe_retract_mount: the target and the move
move_rel_target(c, mount, delta, speed, f) ==
    IF c.err # "none" THEN c
    ELSE IF ~({"X", "Y", by_mount(mount)} \subseteq DOMAIN c.pos)
    THEN Raise(c, "MustHomeError")
    ELSE _move(c,
               [ax \in {"X", "Y", by_mount(mount)} |->
                   CASE ax = "X" -> c.pos["X"] + delta[1]
                     [] ax = "Y" -> c.pos["Y"] + delta[2]
                     [] OTHER -> c.pos[by_mount(mount)] + delta[3]],
               speed, TRUE, f)

move_rel(s, mount, delta, speed, f) ==
    IF s.err # "none" THEN s
    ELSE IF must_home(s) THEN Raise(s, "MustHomeError")
    ELSE move_rel_target(_cache_and_maybe_retract_mount(s, mount, f),
                         mount, delta, speed, f)

\* _move_plunger, except KeyError: raise MustHomeError
key_error_to_must_home(m) ==
    IF m.err = "KeyError" THEN [m EXCEPT !.err = "MustHomeError"] ELSE m

\* the cache is read before the try block: a missing axis is a KeyError
_move_plunger(s, mount, dist, speed, f) ==
    IF s.err # "none" THEN s
    ELSE IF ~({"X", "Y", by_mount(mount)} \subseteq DOMAIN s.pos)
    THEN Raise(s, "KeyError")
    ELSE key_error_to_must_home(
            _move(s,
                  [ax \in {"X", "Y", by_mount(mount), of_plunger(mount)} |->
                      IF ax = of_plunger(mount) THEN dist ELSE s.pos[ax]],
                  speed, FALSE, f))

\* a home that is sent to the backend for an empty group as well
home_each_group(s, axes, f) == backend_home(s, axes, f)

\* if smoothie_gantry: / if smoothie_plungers: self._backend.home(...)
home_axes(s, axes, f) == IF axes # {} THEN backend_home(s, axes, f) ELSE s

\* checked_axes = axes or [ax for ax in Axis]
checked_axes(axes) == IF axes = {} THEN Axes ELSE axes

home(s, axes, f) ==
    IF s.err # "none" THEN s
    ELSE cache_from_backend(
            home_axes(home_axes(s, checked_axes(axes) \cap gantry_axes, f),
                      checked_axes(axes) \ gantry_axes, f))

\* a position query that leaves out the offset of the left mount
current_position_of_carriage(s, mount, cp_override) ==
    LET cp == _critical_point_for(s, mount, cp_override)
    IN  [ax \in {"X", "Y", by_mount(mount), of_plunger(mount)} |->
            CASE ax = "X" -> s.pos["X"] + cp[1]
              [] ax = "Y" -> s.pos["Y"] + cp[2]
              [] ax = by_mount(mount) -> s.pos[by_mount(mount)] + cp[3]
              [] OTHER -> s.pos[of_plunger(mount)]]

\* the dict current_position builds under the motion lock
current_position_value(s, mount, cp_override) ==
    LET offset == IF mount = "RIGHT" THEN <<0, 0, 0>> ELSE mount_offset
        cp == _critical_point_for(s, mount, cp_override)
    IN  [ax \in {"X", "Y", by_mount(mount), of_plunger(mount)} |->
            CASE ax = "X" -> s.pos["X"] + offset[1] + cp[1]
              [] ax = "Y" -> s.pos["Y"] + offset[2] + cp[2]
              [] ax = by_mount(mount) ->
                    s.pos[by_mount(mount)] + offset[3] + cp[3]
              [] OTHER -> s.pos[of_plunger(mount)]]

\* current_position, the block under the motion lock: the cache is read
\* axis by axis, and a missing axis is a KeyError
current_position_locked(s, mount, cp_override) ==
    IF ~({"X", "Y", by_mount(mount), of_plunger(mount)} \subseteq DOMAIN s.pos)
    THEN Raise(s, "KeyError")
    ELSE [s EXCEPT !.ret = <<current_position_value(s, mount, cp_override)>>]

current_position(s, mount, cp_override) ==
    IF s.err # "none" THEN s
    ELSE IF must_home(s) THEN Raise(s, "MustHomeError")
    ELSE [s EXCEPT !.ret = <<current_position_value(s, mount, cp_override)>>]

\* Point(x=cur_pos[Axis.X], y=cur_pos[Axis.Y], z=cur_pos[Axis.by_mount(mount)])
gantry_point(c, mount) ==
    IF c.err # "none" THEN c
    ELSE [c EXCEPT !.ret = << <<c.ret[1]["X"], c.ret[1]["Y"],
                                c.ret[1][by_mount(mount)]>> >>]

gantry_position(s, mount, cp_override) ==
    gantry_point(current_position(s, mount, cp_override), mount)

----------------------------------------------------------------------------
(* Liquid handling: hardware_control.API *)

_plunger_position(instr, ul, action) ==
    (Mm(ul) \div ul_per_mm(instr, ul, action))
        + config(instr).plunger_positions.bottom

\* self._backend.set_active_current(Axis.of_plunger(mount), plunger_current)
plunger_current_set(s, mount) ==
    backend_set_active_current(s, of_plunger(mount),
                               config(s.instr[mount]).plunger_current)

\* aspirate, except Exception: set_current_volume(0), then raise
aspirate_failed(s, mount) ==
    [s EXCEPT !.instr[mount] = set_current_volume(@, 0)]

\* aspirate, after the plunger move: the except and the else branch
aspirate_moved(m, mount, asp_vol) ==
    IF m.err # "none" THEN aspirate_failed(m, mount)
    ELSE [m EXCEPT !.instr[mount] = add_current_volume(@, asp_vol)]

\* an aspirate without the headroom assertion
aspirate_unchecked(this_pipette, asp_vol) == TRUE

\* assert this_pipette.ok_to_add_volume(asp_vol)
aspirate_allowed(this_pipette, asp_vol) ==
    ok_to_add_volume(this_pipette, asp_vol)

\* aspirate, once asp_vol is known
aspirate_volume(s, mount, asp_vol, rate, f) ==
    IF ~aspirate_allowed(s.instr[mount], asp_vol)
    THEN Raise(s, "AssertionError")
    ELSE IF asp_vol = 0 THEN s
    ELSE aspirate_moved(
            _move_plunger(
                plunger_current_set(s, mount), mount,
                _plunger_position(s.instr[mount],
                                  s.instr[mount].current_volume + asp_vol,
                                  "aspirate"),
                <<config(s.instr[mount]).aspirate_flow_rate * rate>>, f),
            mount, asp_vol)

aspirate(s, mount, volume, rate, f) ==
    IF s.instr[mount] = None THEN Raise(s, "PipetteNotAttachedError")
    ELSE aspirate_volume(s, mount,
                         IF volume = NoVolume
                         THEN available_volume(s.instr[mount])
                         ELSE volume[1],
                         rate, f)

\* a dispense that takes the requested volume as it is
dispense_unclamped(this_pipette, disp_vol) == disp_vol

\* disp_vol = min(this_pipette.current_volume, disp_vol)
dispense_clamp(this_pipette, disp_vol) ==
    IF this_pipette.current_volume <= disp_vol
    THEN this_pipette.current_volume ELSE disp_vol

\* a dispense whose except branch re-raises without resetting the volume
dispense_failed_keeping_volume(s, mount) == s

\* dispense, except Exception: set_current_volume(0), then raise
dispense_failed(s, mount) ==
    [s EXCEPT !.instr[mount] = set_current_volume(@, 0)]

\* dispense, after the plunger move: the except and the else branch
dispense_moved(m, mount, disp_vol) ==
    IF m.err # "none" THEN dispense_failed(m, mount)
    ELSE [m EXCEPT !.instr[mount] = remove_current_volume(@, disp_vol)]

\* dispense, once the clamped disp_vol is known
dispense_volume(s, mount, disp_vol, rate, f) ==
    IF disp_vol = 0 THEN s
    ELSE dispense_moved(
            _move_plunger(
                plunger_current_set(s, mount), mount,
                _plunger_position(s.instr[mount],
                                  s.instr[mount].current_volume - disp_vol,
                                  "dispense"),
                <<config(s.instr[mount]).dispense_flow_rate * rate>>, f),
            mount, disp_vol)

dispense(s, mount, volume, rate, f) ==
    IF s.instr[mount] = None THEN Raise(s, "PipetteNotAttachedError")
    ELSE dispense_volume(s, mount,
                         dispense_clamp(s.instr[mount],
                                        IF volume = NoVolume
                                        THEN s.instr[mount].current_volume
                                        ELSE volume[1]),
                         rate, f)

\* a blow_out without the finally clause
blow_out_keeping_volume(s, mount) == s

\* blow_out, finally: set_current_volume(0)
blow_out_finally(s, mount) ==
    [s EXCEPT !.instr[mount] = set_current_volume(@, 0)]

blow_out(s, mount, f) ==
    IF s.instr[mount] = None THEN Raise(s, "PipetteNotAttachedError")
    ELSE blow_out_finally(
            _move_plunger(plunger_current_set(s, mount), mount,
                          config(s.instr[mount]).plunger_positions.blow_out,
                          NoSpeed, f),
            mount)

_shake_off_tips(s, mount, f) ==
    move_rel(
        move_rel(
            move_rel(
                move_rel(s, mount, <<-SHAKE_OFF_TIPS_DISTANCE, 0, 0>>,
                         <<SHAKE_OFF_TIPS_SPEED>>, f),
                mount, <<2 * SHAKE_OFF_TIPS_DISTANCE, 0, 0>>,
                <<SHAKE_OFF_TIPS_SPEED>>, f),
            mount, <<-SHAKE_OFF_TIPS_DISTANCE, 0, 0>>,
            <<SHAKE_OFF_TIPS_SPEED>>, f),
        mount, <<0, 0, DROP_TIP_RELEASE_DISTANCE>>, NoSpeed, f)

\* a press loop that goes to the same depth every time
press_dist_flat(instr, increment, i) ==
    -1 * config(instr).pick_up_distance

\* dist = -1 * instr.config.pick_up_distance + -1 * increment * i
press_dist(instr, increment, i) ==
    -1 * config(instr).pick_up_distance + -1 * increment * i

\* one press: the nozzle down into the tip at pick_up_current, then back up
press(s, mount, increment, i, f) ==
    IF s.err # "none" THEN s
    ELSE move_rel(
            move_rel(
                backend_set_active_current(
                    s, by_mount(mount), config(s.instr[mount]).pick_up_current),
                mount, <<0, 0, press_dist(s.instr[mount], increment, i)>>,
                <<PICK_UP_SPEED>>, f),
            mount, <<0, 0, -press_dist(s.instr[mount], increment, i)>>,
            NoSpeed, f)

\* for i in range(presses)
RECURSIVE press_cycles(_, _, _, _, _, _)
press_cycles(s, mount, i, presses, increment, f) ==
    IF i >= presses THEN s
    ELSE press_cycles(press(s, mount, increment, i, f),
                      mount, i + 1, presses, increment, f)

\* a pick_up_tip that registers the tip whatever the presses did
tip_added_regardless(p, mount, tip_length) ==
    [p EXCEPT !.instr[mount] = set_current_volume(add_tip(@, tip_length), 0)]

\* instr.add_tip(tip_length=tip_length); instr.set_current_volume(0)
tip_added(p, mount, tip_length) ==
    IF p.err # "none" THEN p
    ELSE [p EXCEPT !.instr[mount] =
            set_current_volume(add_tip(@, tip_length), 0)]

\* if 'needs-pickup-shake' in instr.config.quirks: two shake-offs
pickup_shake(t, mount, f) ==
    IF t.err # "none" THEN t
    ELSE IF "needs-pickup-shake" \in config(t.instr[mount]).quirks
    THEN _shake_off_tips(_shake_off_tips(t, mount, f), mount, f)
    ELSE t

\* await self.retract(mount, instr.config.pick_up_distance)
pickup_retract(k, mount, f) ==
    IF k.err # "none" THEN k
    ELSE retract(k, mount, config(k.instr[mount]).pick_up_distance, f)

pick_up_tip(s, mount, tip_length, presses, increment, f) ==
    IF s.instr[mount] = None THEN Raise(s, "AssertionError")
    ELSE IF s.instr[mount].has_tip THEN Raise(s, "AssertionError")
    ELSE pickup_retract(
            pickup_shake(
                tip_added(
                    press_cycles(
                        _move_plunger(
                            plunger_current_set(s, mount), mount,
                            config(s.instr[mount]).plunger_positions.bottom,
                            NoSpeed, f),
                        mount, 0, presses, increment, f),
                    mount, tip_length),
                mount, f),
            mount, f)

\* drop_tip up to the shake-off: plunger to bottom, then to drop_tip
tip_pushed_off(s, mount, f) ==
    _shake_off_tips(
        _move_plunger(
            backend_set_active_current(
                _move_plunger(plunger_current_set(s, mount), mount,
                              config(s.instr[mount]).plunger_positions.bottom,
                              NoSpeed, f),
                of_plunger(mount), config(s.instr[mount]).drop_tip_current),
            mount, config(s.instr[mount]).plunger_positions.drop_tip,
            <<config(s.instr[mount]).drop_tip_speed>>, f),
        mount, f)

\* instr.set_current_volume(0); instr.remove_tip()
tip_removed(c, mount) ==
    IF c.err # "none" THEN c
    ELSE [c EXCEPT !.instr[mount] = remove_tip(set_current_volume(@, 0))]

\* a margin taken without the absolute value, from the drop-tip side
safety_margin_signed(instr) ==
    config(instr).plunger_positions.drop_tip
        - config(instr).plunger_positions.bottom

\* safety_margin = abs(bottom-droptip)
safety_margin(instr) ==
    IF config(instr).plunger_positions.bottom
          >= config(instr).plunger_positions.drop_tip
    THEN config(instr).plunger_positions.bottom
            - config(instr).plunger_positions.drop_tip
    ELSE config(instr).plunger_positions.drop_tip
            - config(instr).plunger_positions.bottom

\* if home_after: fast_home of the plunger, then the plunger to the margin
plunger_homed_after(t, mount, f) ==
    IF t.err # "none" THEN t
    ELSE _move_plunger(
            cache_from_backend(
                backend_fast_home(t, of_plunger(mount),
                                  safety_margin(t.instr[mount]), f)),
            mount, safety_margin(t.instr[mount]), NoSpeed, f)

\* drop_tip from the restored plunger current on
tip_dropped(k, mount, home_after, f) ==
    IF k.err # "none" THEN k
    ELSE IF home_after
    THEN plunger_homed_after(
            tip_removed(plunger_current_set(k, mount), mount), mount, f)
    ELSE tip_removed(plunger_current_set(k, mount), mount)

drop_tip(s, mount, home_after, f) ==
    IF s.instr[mount] = None THEN Raise(s, "AssertionError")
    ELSE IF ~s.instr[mount].has_tip THEN Raise(s, "AssertionError")
    ELSE tip_dropped(tip_pushed_off(s, mount, f), mount, home_after, f)

home_plunger(s, mount, f) ==
    IF s.instr[mount] = None THEN s
    ELSE _move_plunger(home(s, {of_plunger(mount)}, f), mount,
                       config(s.instr[mount]).plunger_positions.bottom,
                       NoSpeed, f)

----------------------------------------------------------------------------
(* Instrument scan: Simulator.get_attached_instruments, API.cache_instruments *)

\* the characters of the model names and prefixes in use
Text(name) ==
    CASE name = "p10" -> <<"p", "1", "0">>
      [] name = "p50" -> <<"p", "5", "0">>
      [] name = "p300" -> <<"p", "3", "0", "0">>
      [] name = "p10_single" ->
            <<"p", "1", "0", "_", "s", "i", "n", "g", "l", "e">>
      [] name = "p300_multi" ->
            <<"p", "3", "0", "0", "_", "m", "u", "l", "t", "i">>
      [] name = "p300_single" ->
            <<"p", "3", "0", "0", "_", "s", "i", "n", "g", "l", "e">>
      [] name = "p1000_single" ->
            <<"p", "1", "0", "0", "0", "_", "s", "i", "n", "g", "l", "e">>

\* the code point of a character
Ord(ch) ==
    CASE ch = "0" -> 48 [] ch = "1" -> 49 [] ch = "3" -> 51 [] ch = "5" -> 53
      [] ch = "_" -> 95 [] ch = "e" -> 101 [] ch = "g" -> 103
      [] ch = "i" -> 105 [] ch = "l" -> 108 [] ch = "m" -> 109
      [] ch = "n" -> 110 [] ch = "p" -> 112 [] ch = "s" -> 115
      [] ch = "t" -> 116 [] ch = "u" -> 117

\* str.startswith
startswith(name, prefix) ==
    /\ Len(Text(prefix)) <= Len(Text(name))
    /\ SubSeq(Text(name), 1, Len(Text(prefix))) = Text(prefix)

\* the order sorted() puts strings in
RECURSIVE Before(_, _)
Before(a, b) ==
    IF a = <<>> THEN b # <<>>
    ELSE IF b = <<>> THEN FALSE
    ELSE IF Head(a) = Head(b) THEN Before(Tail(a), Tail(b))
    ELSE Ord(Head(a)) < Ord(Head(b))

\* opentrons.config.pipette_config.configs: the models with a configuration
configs == {"p10_single", "p300_single", "p300_multi", "p1000_single"}

\* matches = [conf for conf in configs if conf.startswith(prefix)]
matches(prefix) == {conf \in configs : startswith(conf, prefix)}

\* find_config: the prefix itself when it is a model, else the first match
\* in sorted order; "KeyError" stands for the exception
find_config(prefix) ==
    IF matches(prefix) = {} THEN "KeyError"
    ELSE IF prefix \in matches(prefix) THEN prefix
    ELSE CHOOSE m \in matches(prefix) :
            \A o \in matches(prefix) \ {m} : Before(Text(m), Text(o))

\* one entry of to_return, or the exception raised while building it
Found(model, id) == [err |-> "none", model |-> model, id |-> id]
NotFound(e) == [err |-> e, model |-> "None", id |-> "None"]

\* the id the constructor's dict gives the instrument, None standing for an
\* instrument nobody has seen
SimId(mount) == IF mount = "LEFT" THEN "id_left" ELSE "id_right"

\* {'model': find_config(expected_instr), 'id': None}
expected_unverified(expected_instr) ==
    IF find_config(expected_instr) = "KeyError" THEN NotFound("KeyError")
    ELSE Found(find_config(expected_instr), "None")

\* a scan that hands back what is attached whatever was expected
scan_unchecked(mount, expected_instr) ==
    IF sim_attached[mount] # "None" THEN Found(sim_attached[mount], SimId(mount))
    ELSE IF expected_instr # "None" THEN expected_unverified(expected_instr)
    ELSE Found("None", "None")

\* the body of `for mount in types.Mount`; "None" is a missing key of
\* expected or of the constructor's dict
scan_mount(mount, expected_instr) ==
    IF /\ expected_instr # "None"
       /\ sim_attached[mount] # "None"
       /\ ~startswith(sim_attached[mount], expected_instr)
    THEN IF _strict_attached THEN NotFound("RuntimeError")
         ELSE expected_unverified(expected_instr)
    ELSE IF sim_attached[mount] # "None"
    THEN Found(sim_attached[mount], SimId(mount))
    ELSE IF expected_instr # "None" THEN expected_unverified(expected_instr)
    ELSE Found("None", "None")

\* the mounts are scanned LEFT first: the first exception ends the call
scan_error(found) ==
    IF found["LEFT"].err # "none" THEN found["LEFT"].err ELSE found["RIGHT"].err

get_attached_instruments(expected) ==
    [mount \in Mounts |-> scan_mount(mount, expected[mount])]

\* checked_require = require or {}
NoRequire == [mount \in Mounts |-> "None"]

\* a rescan that keeps the pipette object of a mount whose model is the same
instruments_kept(s, found) ==
    [s EXCEPT !.instr = [mount \in Mounts |->
        IF found[mount].model = "None" THEN None
        ELSE IF s.instr[mount] # None /\ s.instr[mount].model = found[mount].model
        THEN s.instr[mount]
        ELSE Pipette(found[mount].model, instrument_offset[mount])]]

\* for mount, instrument_data in found.items(): a new Pipette where a model
\* was found, None where it was not
instruments_cached(s, found) ==
    [s EXCEPT !.instr = [mount \in Mounts |->
        IF found[mount].model # "None"
        THEN Pipette(found[mount].model, instrument_offset[mount])
        ELSE None]]

\* the scan raises before anything is assigned
cache_instruments(s, require) ==
    IF scan_error(get_attached_instruments(require)) # "none"
    THEN Raise(s, scan_error(get_attached_instruments(require)))
    ELSE instruments_cached(s, get_attached_instruments(require))

----------------------------------------------------------------------------
(* Tip probe: hardware_control.API over robot_configs.tip_probe *)

\* config.tip_probe: the nominal center of the probe target, the clearances
\* and sizes the hotspots are derived from
tip_probe ==
    [center |-> <<Mm(290), Mm(300), Mm(75)>>,
     dimensions |-> <<Mm(40), Mm(40), Mm(80)>>,
     switch_clearance |-> Mm(5),
     z_clearance |-> [normal |-> Mm(5), deck |-> Mm(5), start |-> Mm(20),
                      crossover |-> Mm(35)],
     bounce_distance |-> Mm(5)]

HotSpot(axis, x_start_offs, y_start_offs, z_start_abs, probe_distance) ==
    [axis |-> axis, x_start_offs |-> x_start_offs,
     y_start_offs |-> y_start_offs, z_start_abs |-> z_start_abs,
     probe_distance |-> probe_distance]

\* the height at which the X and Y switches are approached with this tip
nozzle_safe_z(tip_length) ==
    IF tip_probe.dimensions[3] - tip_length + tip_probe.z_clearance.normal
          > tip_probe.z_clearance.deck
    THEN tip_probe.dimensions[3] - tip_length + tip_probe.z_clearance.normal
    ELSE tip_probe.z_clearance.deck

\* robot_configs.calculate_tip_probe_hotspots: two opposing hotspots on X,
\* two on Y, one on Z
calculate_tip_probe_hotspots(tip_length) ==
    << HotSpot("x", -(tip_probe.dimensions[1] \div 2
                        + tip_probe.switch_clearance), 0,
               nozzle_safe_z(tip_length), tip_probe.dimensions[1]),
       HotSpot("x", tip_probe.dimensions[1] \div 2
                        + tip_probe.switch_clearance, 0,
               nozzle_safe_z(tip_length), -tip_probe.dimensions[1]),
       HotSpot("y", 0, -(tip_probe.dimensions[2] \div 2
                           + tip_probe.switch_clearance),
               nozzle_safe_z(tip_length), tip_probe.dimensions[2]),
       HotSpot("y", 0, tip_probe.dimensions[2] \div 2
                           + tip_probe.switch_clearance,
               nozzle_safe_z(tip_length), -tip_probe.dimensions[2]),
       HotSpot("z", 0, 0,
               tip_probe.center[3] + tip_probe.z_clearance.start,
               -tip_probe.z_clearance.start) >>

\* safe_z = z_clearance.crossover + center[2]
safe_z == tip_probe.z_clearance.crossover + tip_probe.center[3]

\* Axis[hs.axis.upper()].value, counted from 1
AxisValue(axis) == CASE axis = "x" -> 1 [] axis = "y" -> 2 [] axis = "z" -> 3

RECURSIVE SumSeq(_)
SumSeq(vals) == IF vals = <<>> THEN 0 ELSE Head(vals) + SumSeq(Tail(vals))

\* the first measurement taken for the mean of all of them
first_measurement(vals) == Head(vals)

\* sum(vals)/len(vals)
mean(vals) == SumSeq(vals) \div Len(vals)

\* the center the next hotspot is placed around: the mean of two
\* measurements on an axis, else the configured center
overridden_center(new_pos) ==
    [i \in 1..3 |-> IF Len(new_pos[i]) = 2 THEN mean(new_pos[i])
                    ELSE tip_probe.center[i]]

\* a: current_position has returned.  Up to the safe height, over to the
\* hotspot's start, down to its start height
tp_setup(a, mount, hs, center, f) ==
    IF a.err # "none" THEN a
    ELSE move_to(
            move_to(
                move_to(a, mount, <<a.ret[1]["X"], a.ret[1]["Y"], safe_z>>,
                        NoSpeed, "None", f),
                mount,
                <<center[1] + hs.x_start_offs, center[2] + hs.y_start_offs,
                  safe_z>>,
                NoSpeed, "None", f),
            mount,
            <<center[1] + hs.x_start_offs, center[2] + hs.y_start_offs,
              hs.z_start_abs>>,
            NoSpeed, "None", f)

\* a probe sent along the axis the hotspot names, whatever the mount
to_probe_named(mount, hs) ==
    CASE hs.axis = "x" -> "X" [] hs.axis = "y" -> "Y" [] hs.axis = "z" -> "Z"

\* to_probe = Axis.by_mount(mount) if ax_en == Axis.Z else ax_en
to_probe(mount, hs) ==
    CASE hs.axis = "x" -> "X" [] hs.axis = "y" -> "Y"
      [] hs.axis = "z" -> by_mount(mount)

\* under the motion lock: the probe, and the cache replaced by where it
\* stopped
tp_probe(d, mount, hs, f) ==
    cache_from_backend(
        backend_probe(d, to_probe(mount, hs), hs.probe_distance, f))

\* new_pos[ax_en].append(xyz[ax_en.value])
tp_recorded(new_pos, hs, g) ==
    IF g.err # "none" THEN new_pos
    ELSE [new_pos EXCEPT ![AxisValue(hs.axis)] =
            Append(@, g.ret[1][AxisValue(hs.axis)])]

\* bounce = bounce_distance * (-1.0 if hs.probe_distance > 0 else 1.0)
bounce(hs) ==
    [i \in 1..3 |->
        IF i # AxisValue(hs.axis) THEN 0
        ELSE IF hs.probe_distance > 0 THEN -tip_probe.bounce_distance
        ELSE tip_probe.bounce_distance]

\* g: gantry_position has returned xyz.  Back off the switch, then up
tp_retreat(g, mount, hs, f) ==
    IF g.err # "none" THEN g
    ELSE move_to(move_rel(g, mount, bounce(hs), NoSpeed, f), mount,
                 <<g.ret[1][1], g.ret[1][2], safe_z>>, NoSpeed, "None", f)

\* the Point _do_tp returns: the mean of the measurements of each axis
tp_returned(s, new_pos) ==
    IF s.err # "none" THEN s
    ELSE [s EXCEPT !.ret = << [i \in 1..3 |-> mean(new_pos[i])] >>]

\* for hs in hotspots, from the i-th on
RECURSIVE tp_hotspots(_, _, _, _, _, _)
tp_measured(g, mount, hotspots, i, new_pos, f) ==
    tp_hotspots(tp_retreat(g, mount, hotspots[i], f), mount, hotspots,
                i + 1, tp_recorded(new_pos, hotspots[i], g), f)

tp_hotspots(s, mount, hotspots, i, new_pos, f) ==
    IF i > Len(hotspots) THEN tp_returned(s, new_pos)
    ELSE tp_measured(
            gantry_position(
                tp_probe(
                    tp_setup(current_position(s, mount, "None"), mount,
                             hotspots[i], overridden_center(new_pos), f),
                    mount, hotspots[i], f),
                mount, "None"),
            mount, hotspots, i, new_pos, f)

\* pip.update_instrument_offset(top_types.Point()), then the hotspots
_do_tp(s, mount, f) ==
    tp_hotspots([s EXCEPT !.instr[mount].instrument_offset = <<0, 0, 0>>],
                mount,
                calculate_tip_probe_hotspots(s.instr[mount].current_tip_length),
                1, << <<>>, <<>>, <<>> >>, f)

NoLength == <<>>

\* Python truth of an optional length: None and 0 are false
Given(tip_length) ==
    IF tip_length = NoLength THEN FALSE ELSE tip_length[1] # 0

\* _assure_tip, before the yield
old_tip(pip) == IF pip.has_tip THEN <<pip.current_tip_length>> ELSE NoLength
tip_assured(pip, tip_length) ==
    add_tip(IF pip.has_tip THEN remove_tip(pip) ELSE pip, tip_length)

\* _assure_tip, finally: remove_tip, and add_tip(old_tip) if there was one
tip_restored(r, mount, old) ==
    [r EXCEPT !.instr[mount] =
        IF Given(old) THEN add_tip(remove_tip(@), old[1]) ELSE remove_tip(@)]

\* with _assure_tip(): return await self._do_tp(pip, mount)
probe_with_tip(s, mount, pip, tip_length, f) ==
    tip_restored(
        _do_tp([s EXCEPT !.instr[mount] = tip_assured(pip, tip_length)],
               mount, f),
        mount, old_tip(pip))

locate_tip_probe_center(s, mount, tip_length, f) ==
    IF s.instr[mount] = None THEN Raise(s, "AssertionError")
    ELSE IF Given(tip_length)
    THEN probe_with_tip(s, mount,
                        IF s.instr[mount].has_tip
                        THEN remove_tip(s.instr[mount]) ELSE s.instr[mount],
                        tip_length[1], f)
    ELSE IF ~s.instr[mount].has_tip THEN Raise(s, "AssertionError")
    ELSE probe_with_tip(s, mount, s.instr[mount],
                        s.instr[mount].current_tip_length, f)

----------------------------------------------------------------------------
(* Instrument offsets: hardware_control.API.update_instrument_offset *)

NoPoint == <<>>

\* what update_instrument_offset leaves behind: the stored offsets, the
\* cached instruments and the exception raised, if any
Updated(offs, instr, err) == [offs |-> offs, instr |-> instr, err |-> err]

\* an offset taken as the measured center minus the configured one
offset_from_probe_reversed(from_tip_probe) ==
    [i \in 1..3 |-> from_tip_probe[i] - tip_probe.center[i]]

\* new_offset = Point(*self._config.tip_probe.center) - from_tip_probe
offset_from_probe(from_tip_probe) ==
    [i \in 1..3 |-> tip_probe.center[i] - from_tip_probe[i]]

\* from the assertion on: the stored offset of the mount and the pipette's
\* class, then the live pipette
offset_applied(offs, instr, mount, new_offset) ==
    IF instr[mount] = None THEN Updated(offs, instr, "AssertionError")
    ELSE Updated(
            [offs EXCEPT ![mount][pip_type(instr[mount].model)] = new_offset],
            [instr EXCEPT ![mount].instrument_offset = new_offset],
            "none")

\* a Point is a non-empty tuple and so always true: only None is false
update_instrument_offset(offs, instr, mount, new_offset, from_tip_probe) ==
    IF from_tip_probe # NoPoint
    THEN offset_applied(offs, instr, mount,
                        offset_from_probe(from_tip_probe[1]))
    ELSE IF new_offset = NoPoint THEN Updated(offs, instr, "ValueError")
    ELSE offset_applied(offs, instr, mount, new_offset[1])

----------------------------------------------------------------------------
(* Inputs of the public calls *)

Points == { <<Mm(100), Mm(100), Mm(100)>> }
Deltas == { <<Mm(-250), 0, Mm(50)>> }
CriticalPoints == {"None", "MOUNT"}
Volumes == {NoVolume} \cup {<<v>> : v \in (0 - 1)..(MaxVolume + 1)}

\* a negative volume is passed only to a pipette whose volume is in
\* 0..max_volume, which keeps current_volume in -1..max_volume + 1
NegativeVolumeOnce(mount, volume) ==
    LET p == _attached_instruments[mount]
    IN  IF volume = NoVolume THEN TRUE
        ELSE IF volume[1] >= 0 THEN TRUE
        ELSE IF p = None THEN TRUE
        ELSE p.current_volume \in 0..config(p).max_volume

TipLengths == {Mm(50)}
HomeAxes == { {}, {"Z", "A"}, {"B"} }

\* the relative moves a caller asks for stay inside the machine's travel
WithinTravel(s, mount, delta) ==
    /\ {"X", "Y", by_mount(mount)} \subseteq DOMAIN s.pos
    /\ LET raw == apply_transform(gantry_calibration,
                    <<s.pos["X"] + delta[1], s.pos["Y"] + delta[2],
                      s.pos[by_mount(mount)] + delta[3]>>)
           axs == <<"X", "Y", by_mount(mount)>>
       IN  \A i \in 1..3 : /\ raw[i] >= axis_bounds[axs[i]][1]
                           /\ raw[i] <= axis_bounds[axs[i]][2]

----------------------------------------------------------------------------
(* The public calls and their outcomes *)

Call(op, mount, args) == [op |-> op, mount |-> mount, args |-> args]
NoArgs == [none |-> TRUE]

CallsOf(op) ==
    CASE op = "cache_instruments" ->
            {Call(op, NoMount, [require |-> NoRequire])}
      [] op = "home" -> {Call(op, NoMount, [axes |-> a]) : a \in HomeAxes}
      [] op \in {"home_plunger", "blow_out"} ->
            {Call(op, m, NoArgs) : m \in Mounts}
      [] op \in {"current_position", "gantry_position"} ->
            {Call(op, m, [critical_point |-> cp]) :
                m \in Mounts, cp \in CriticalPoints}
      [] op = "move_to" ->
            {Call(op, m, [abs_position |-> p, critical_point |-> cp]) :
                m \in Mounts, p \in Points, cp \in CriticalPoints}
      [] op = "move_rel" ->
            {Call(op, m, [delta |-> d]) : m \in Mounts, d \in Deltas}
      [] op = "retract" ->
            {Call(op, m, [margin |-> RETRACT_MARGIN]) : m \in Mounts}
      [] op \in {"aspirate", "dispense"} ->
            {Call(op, m, [volume |-> v]) : m \in Mounts, v \in Volumes}
      [] op = "pick_up_tip" ->
            {Call(op, m, [tip_length |-> l, presses |-> n]) :
                m \in Mounts, l \in TipLengths, n \in 1..MaxPresses}
      [] op = "drop_tip" ->
            {Call(op, m, [home_after |-> h]) : m \in Mounts, h \in BOOLEAN}
      [] op = "locate_tip_probe_center" ->
            {Call(op, m, [tip_length |-> l]) :
                m \in Mounts, l \in {NoLength} \cup {<<t>> : t \in TipLengths}}

\* the most motion commands a call can issue
Motions(c) ==
    CASE c.op \in {"cache_instruments", "current_position",
                   "gantry_position"} -> 0
      [] c.op \in {"retract", "aspirate", "dispense", "blow_out"} -> 1
      [] c.op \in {"home", "home_plunger", "move_to", "move_rel"} -> 2
         \* the plunger move, a retraction of the other mount, two moves a
         \* press, two shake-offs of four moves each, the final retraction
      [] c.op = "pick_up_tip" -> 1 + 1 + 2 * c.args.presses + 2 * 4 + 1
         \* two plunger moves, a retraction of the other mount, one
         \* shake-off, the plunger's fast home, the plunger move to the margin
      [] c.op = "drop_tip" -> 2 + 1 + 4 + 1 + 1
         \* a retraction of the other mount, and for each of the five
         \* hotspots three moves, the probe, the bounce and the rise
      [] c.op = "locate_tip_probe_center" -> 1 + 5 * 6

\* which motion command of the call raises: none (0) or one of those it issues
FailAt(c) == 0..Motions(c)

\* what call c leaves behind when it starts from s and its f-th motion
\* command raises
Outcome(s, c, f) ==
    CASE c.op = "cache_instruments" -> cache_instruments(s, c.args.require)
      [] c.op = "home" -> home(s, c.args.axes, f)
      [] c.op = "home_plunger" -> home_plunger(s, c.mount, f)
      [] c.op = "current_position" ->
            current_position(s, c.mount, c.args.critical_point)
      [] c.op = "gantry_position" ->
            gantry_position(s, c.mount, c.args.critical_point)
      [] c.op = "move_to" ->
            move_to(s, c.mount, c.args.abs_position, NoSpeed,
                    c.args.critical_point, f)
      [] c.op = "move_rel" -> move_rel(s, c.mount, c.args.delta, NoSpeed, f)
      [] c.op = "retract" -> retract(s, c.mount, c.args.margin, f)
      [] c.op = "aspirate" -> aspirate(s, c.mount, c.args.volume, 1, f)
      [] c.op = "dispense" -> dispense(s, c.mount, c.args.volume, 1, f)
      [] c.op = "blow_out" -> blow_out(s, c.mount, f)
      [] c.op = "pick_up_tip" ->
            pick_up_tip(s, c.mount, c.args.tip_length, c.args.presses,
                        Mm(1), f)
      [] c.op = "drop_tip" -> drop_tip(s, c.mount, c.args.home_after, f)
      [] c.op = "locate_tip_probe_center" ->
            locate_tip_probe_center(s, c.mount, c.args.tip_length, f)

\* the state a finished call leaves for the next one
Reenter(s) == [s EXCEPT !.err = "none", !.issued = <<>>, !.n = 0, !.ret = <<>>, !.warned = FALSE]

\* a backend command of the call raised
BackendRaised(s) == \E i \in 1..Len(s.issued) : ~s.issued[i].ok

----------------------------------------------------------------------------
(* Thermocycler serial poller: drivers.thermocycler.driver.TCPoller *)

\* the fifo each file object is opened on: all four on the send fifo, the
\* halt fifo being made but never opened
_send_read_file == "send"
_send_write_fd == "send"
_halt_read_file == "send"
_halt_write_fd == "send"

GET_PLATE_TEMP == "M105"

\* TCPoller.__init__: the queue and both fifos empty, the thread started.
\* submitted and close_called record the calls made, interrupt whether the
\* device has sent a lid-open message nobody has read yet, faulted whether
\* the device has answered a command with an error or not at all
TCPoller ==
    [_command_queue |-> <<>>, fifo |-> [send |-> <<>>, halt |-> <<>>],
     alive |-> TRUE, device |-> <<>>, called |-> <<>>,
     submitted |-> <<>>, close_called |-> FALSE, interrupt |-> FALSE,
     faulted |-> FALSE]

\* TCPoller.send, under self._lock
send(p, command) ==
    [p EXCEPT !._command_queue = Append(@, command),
              !.fifo[_send_write_fd] = Append(@, "c"),
              !.submitted = Append(@, command)]

\* TCPoller.close
close(p) ==
    [p EXCEPT !.fifo[_halt_write_fd] = Append(@, "q"),
              !.close_called = TRUE]

\* what self._poller.poll() reports readable
readable(p, file) == p.fifo[file] # <<>>

\* the device's answer to a command line
response(command) == <<"ok", command>>

\* _send_command: the command is written to the device; an error answer or
\* no answer after the retries raises, which ends the thread's target
_send_command(p, command, ok) ==
    IF ok THEN [p EXCEPT !.device = Append(@, command)]
    ELSE [p EXCEPT !.device = Append(@, command), !.alive = FALSE,
                   !.faulted = TRUE]

\* callback(res), reached when _send_command returned
callback(p, command) ==
    IF ~p.alive THEN p
    ELSE [p EXCEPT !.called = Append(@, [command |-> command,
                                         res |-> response(command)])]

\* the branch for the send fifo: one byte read, one entry taken off the
\* queue, the command sent, its callback called
command_sent(p, ok) ==
    callback(
        _send_command([p EXCEPT !.fifo[_send_read_file] = Tail(@),
                                !._command_queue = Tail(@)],
                      Head(p._command_queue), ok),
        Head(p._command_queue))

\* one turn of the loop of _serial_poller: the halt file first, then the
\* connection, then the send file, else a status update
_serial_poller(p, ok) ==
    IF readable(p, _halt_read_file)
    THEN [p EXCEPT !.fifo[_halt_read_file] = <<>>, !.alive = FALSE]
    ELSE IF p.interrupt THEN [p EXCEPT !.interrupt = FALSE]
    ELSE IF readable(p, _send_read_file) THEN command_sent(p, ok)
    ELSE _send_command(p, GET_PLATE_TEMP, ok)

----------------------------------------------------------------------------
(* The state machine *)

Tasks == {"t1", "t2"}
NoTask == "NoTask"

\* a task that has not been given a coroutine to run
IdleTask ==
    [pc |-> "idle", call |-> <<>>, prog |-> <<>>, cmds |-> 0, err |-> "none"]

\* the bounds of the model on what a caller and the backend do
Allowed(c, f) ==
    /\ f = 0 \/ failures < MaxFailures
    /\ c.op \in {"aspirate", "dispense"}
         => NegativeVolumeOnce(c.mount, c.args.volume)
    /\ c.op = "move_rel"
         => IF must_home(Enter) THEN TRUE
            ELSE WithinTravel(Enter, c.mount, c.args.delta)

\* the state part of an outcome becomes the state
Landed(s) ==
    /\ _current_position' = s.pos
    /\ _position' = s.bpos
    /\ _attached_instruments' = s.instr
    /\ _last_moved_mount' = s.lmm
    /\ failures' = IF BackendRaised(s) THEN failures + 1 ELSE failures

Commit(s) ==
    /\ Landed(s)
    /\ UNCHANGED <<gantry_calibration, sim_attached, _motion_lock, tasks,
                   settings>>

Init ==
    /\ _current_position = EmptyCache
    /\ _attached_instruments = [mount \in Mounts |-> None]
    /\ _last_moved_mount = NoMount
    /\ gantry_calibration \in Calibrations
    /\ _position = HOME_POSITION
    /\ sim_attached \in SimulatorAttached
    /\ failures = 0
    /\ _motion_lock = NoTask
    /\ tasks = [t \in Tasks |-> IdleTask]
    /\ instrument_offset = DefaultOffsets
    /\ _strict_attached = TRUE
    /\ _run_flag = FALSE
    /\ paused = FALSE
    /\ tc = TCPoller

CacheInstruments ==
    \E c \in CallsOf("cache_instruments") :
        /\ Allowed(c, 0)
        /\ Commit(Outcome(Enter, c, 0))
Home ==
    \E c \in CallsOf("home") : \E f \in FailAt(c) :
        /\ Allowed(c, f)
        /\ Commit(Outcome(Enter, c, f))
HomePlunger ==
    \E c \in CallsOf("home_plunger") : \E f \in FailAt(c) :
        /\ Allowed(c, f)
        /\ Commit(Outcome(Enter, c, f))
CurrentPosition ==
    \E c \in CallsOf("current_position") :
        /\ Allowed(c, 0)
        /\ Commit(Outcome(Enter, c, 0))
GantryPosition ==
    \E c \in CallsOf("gantry_position") :
        /\ Allowed(c, 0)
        /\ Commit(Outcome(Enter, c, 0))
MoveTo ==
    \E c \in CallsOf("move_to") : \E f \in FailAt(c) :
        /\ Allowed(c, f)
        /\ Commit(Outcome(Enter, c, f))
MoveRel ==
    \E c \in CallsOf("move_rel") : \E f \in FailAt(c) :
        /\ Allowed(c, f)
        /\ Commit(Outcome(Enter, c, f))
Retract ==
    \E c \in CallsOf("retract") : \E f \in FailAt(c) :
        /\ Allowed(c, f)
        /\ Commit(Outcome(Enter, c, f))
Aspirate ==
    \E c \in CallsOf("aspirate") : \E f \in FailAt(c) :
        /\ Allowed(c, f)
        /\ Commit(Outcome(Enter, c, f))
Dispense ==
    \E c \in CallsOf("dispense") : \E f \in FailAt(c) :
        /\ Allowed(c, f)
        /\ Commit(Outcome(Enter, c, f))
BlowOut ==
    \E c \in CallsOf("blow_out") : \E f \in FailAt(c) :
        /\ Allowed(c, f)
        /\ Commit(Outcome(Enter, c, f))
PickUpTip ==
    \E c \in CallsOf("pick_up_tip") : \E f \in FailAt(c) :
        /\ Allowed(c, f)
        /\ Commit(Outcome(Enter, c, f))
DropTip ==
    \E c \in CallsOf("drop_tip") : \E f \in FailAt(c) :
        /\ Allowed(c, f)
        /\ Commit(Outcome(Enter, c, f))

Next ==
    \/ CacheInstruments
    \/ Home
    \/ HomePlunger
    \/ CurrentPosition
    \/ GantryPosition
    \/ MoveTo
    \/ MoveRel
    \/ Retract
    \/ Aspirate
    \/ Dispense
    \/ BlowOut
    \/ PickUpTip
    \/ DropTip

Spec == Init /\ [][Next]_vars

----------------------------------------------------------------------------
(* Properties: failure handling of the position cache *)

Ops == {"cache_instruments", "home", "home_plunger", "current_position",
        "gantry_position", "move_to", "move_rel", "retract", "aspirate",
        "dispense", "blow_out", "pick_up_tip", "drop_tip"}
AllCalls == UNION {CallsOf(op) : op \in Ops}
HomeCalls == CallsOf("home") \cup CallsOf("home_plunger")
MoveCalls == CallsOf("move_to") \cup CallsOf("move_rel")
QueryCalls == CallsOf("current_position") \cup CallsOf("gantry_position")

\* a backend command of this kind raised during the call
FailedCmd(s, cmd) ==
    \E i \in 1..Len(s.issued) : ~s.issued[i].ok /\ s.issued[i].cmd = cmd

\* every position query made next raises MustHomeError
QueriesRaise(s) ==
    \A q \in QueryCalls : Outcome(Reenter(s), q, 0).err = "MustHomeError"

MoveFailureLocksOut(s) ==
    FailedCmd(s, "move") =>
        /\ s.err = "BackendError"
        /\ s.pos = EmptyCache
        /\ QueriesRaise(s)

\* C1: whenever the backend move issued by _move raises, in whatever call
\* reaches _move, the backend's exception reaches the caller, the position
\* cache is empty, and a current_position call made next raises
\* MustHomeError.
C1_PostFailureLockout ==
    \A c \in AllCalls : \A f \in FailAt(c) :
        MoveFailureLocksOut(Outcome(Enter, c, f))

MoveFailedAndLocked(s) ==
    /\ FailedCmd(s, "move")
    /\ s.err = "BackendError"
    /\ s.pos = EmptyCache
    /\ current_position(Reenter(s), "LEFT", "None").err = "MustHomeError"

\* a homed machine on which a move is about to fail at the backend
C1_Witness ==
    /\ DOMAIN _current_position = Axes
    /\ \E c \in MoveCalls : \E f \in 1..Motions(c) :
          Allowed(c, f) /\ MoveFailedAndLocked(Outcome(Enter, c, f))

EmptyCacheRefuses(s) ==
    /\ s.err = "MustHomeError"
    /\ s.issued = <<>>
    /\ s.pos = _current_position
    /\ s.lmm = _last_moved_mount
    /\ s.bpos = _position

\* C2: with an empty position cache, move_to, move_rel, current_position and
\* gantry_position each raise MustHomeError, send nothing to the backend,
\* and leave the cache and the last moved mount as they were.
C2_EmptyCacheRaisesMustHome ==
    DOMAIN _current_position = {} =>
        /\ \A c \in MoveCalls : \A f \in FailAt(c) :
              EmptyCacheRefuses(Outcome(Enter, c, f))
        /\ \A c \in QueryCalls : EmptyCacheRefuses(Outcome(Enter, c, 0))

\* the cache was emptied after the left mount moved, and a move of the
\* right mount, which would retract the left one, is refused
C2_Witness ==
    /\ DOMAIN _current_position = {}
    /\ _last_moved_mount = "LEFT"
    /\ \E c \in CallsOf("move_to") :
          c.mount = "RIGHT" /\ EmptyCacheRefuses(Outcome(Enter, c, 0))

\* the call gets as far as driving the plunger
DrivesPlunger(c) ==
    LET p == _attached_instruments[c.mount]
    IN  /\ c.op \in {"aspirate", "dispense", "blow_out", "pick_up_tip",
                     "drop_tip"}
        /\ p # None
        /\ c.op = "aspirate" =>
              IF c.args.volume = NoVolume THEN available_volume(p) # 0
              ELSE c.args.volume[1] # 0
                   /\ ok_to_add_volume(p, c.args.volume[1])
        /\ c.op = "dispense" =>
              /\ p.current_volume # 0
              /\ c.args.volume # NoVolume => c.args.volume[1] # 0
        /\ c.op = "pick_up_tip" => ~p.has_tip
        /\ c.op = "drop_tip" => p.has_tip

\* C3: with an empty position cache, every liquid-handling call that drives
\* the plunger raises MustHomeError and no other kind of error.
C3_PlungerOpsRaiseMustHome ==
    DOMAIN _current_position = {} =>
        \A c \in AllCalls :
            DrivesPlunger(c) => Outcome(Enter, c, 0).err = "MustHomeError"

\* C4: whenever a backend motion command raises (move, home, fast_home),
\* the position cache is empty when the call raises to its caller.
C4_CacheClearedOnAnyFailure ==
    \A c \in AllCalls : \A f \in FailAt(c) :
        BackendRaised(Outcome(Enter, c, f))
            => Outcome(Enter, c, f).pos = EmptyCache

StillLocked(s, c2) ==
    FailedCmd(s, "move") => QueriesRaise(Outcome(Reenter(s), c2, 0))

\* C5: after a backend move has failed, position queries keep raising
\* MustHomeError until a home call succeeds, whichever call other than a
\* home is made in between.
C5_RehomeRequired ==
    \A c \in AllCalls \ HomeCalls : \A f \in FailAt(c) :
        \A c2 \in AllCalls \ HomeCalls :
            StillLocked(Outcome(Enter, c, f), c2)

----------------------------------------------------------------------------
(* Properties: volume bookkeeping *)

Attached == {m \in Mounts : _attached_instruments[m] # None}
Vol(s, mount) == s.instr[mount].current_volume
MaxVol(mount) == config(_attached_instruments[mount]).max_volume
IntVolumes == {v \in Volumes : v # NoVolume}
AspirateCall(mount, volume) == Call("aspirate", mount, [volume |-> volume])
DispenseCall(mount, volume) == Call("dispense", mount, [volume |-> volume])

\* C6: whenever control is with the caller, the volume of every attached
\* pipette is between 0 and the pipette's max_volume.
C6_VolumeInRange ==
    \A m \in Attached :
        /\ 0 <= Vol(Enter, m)
        /\ Vol(Enter, m) <= MaxVol(m)

\* the moves the call sent to the backend, in order
IssuedMoves(s) == SelectSeq(s.issued, LAMBDA c : c.cmd = "move")

\* the position is known and the volume is one the pipette can hold
ReadyToPipette(m) ==
    /\ DOMAIN _current_position = Axes
    /\ 0 <= Vol(Enter, m)
    /\ Vol(Enter, m) <= MaxVol(m)

SecondAspirateAdds(m, v1, v2, s) ==
    s.err = "none" => Vol(s, m) = Vol(Enter, m) + v1 + v2

FirstAspirateAdds(m, v1, v2, s) ==
    /\ s.err = "none" => Vol(s, m) = Vol(Enter, m) + v1
    /\ s.err = "none" =>
          SecondAspirateAdds(m, v1, v2,
              Outcome(Reenter(s), AspirateCall(m, <<v2>>), 0))

AspirateFills(m, s) == s.err = "none" => Vol(s, m) = MaxVol(m)

AspirateSucceeds(m, v, s) ==
    /\ s.err = "none"
    /\ Vol(s, m) = Vol(Enter, m) + v
    /\ v # 0 => Len(IssuedMoves(s)) = 1

AspirateRefused(m, s) ==
    /\ s.err = "AssertionError"
    /\ s.issued = <<>>
    /\ s.instr = _attached_instruments
    /\ s.pos = _current_position
    /\ s.bpos = _position

\* C7: two aspirates that succeed one after the other add their volumes to
\* the pipette's volume; an aspirate within the headroom succeeds when the
\* position is known and the backend does not raise; an aspirate with no
\* volume fills the pipette to max_volume; an aspirate beyond the headroom
\* raises, sends nothing to the backend and leaves the volume as it was.
C7_VolumeAccumulation ==
    \A m \in Attached :
        /\ \A v1 \in IntVolumes : \A v2 \in IntVolumes :
              FirstAspirateAdds(m, v1[1], v2[1],
                  Outcome(Enter, AspirateCall(m, v1), 0))
        /\ \A v \in IntVolumes :
              (ReadyToPipette(m) /\ v[1] >= 0
                    /\ Vol(Enter, m) + v[1] <= MaxVol(m))
                 => AspirateSucceeds(m, v[1],
                        Outcome(Enter, AspirateCall(m, v), 0))
        /\ AspirateFills(m, Outcome(Enter, AspirateCall(m, NoVolume), 0))
        /\ \A v \in IntVolumes : \A f \in 0..1 :
              Vol(Enter, m) + v[1] > MaxVol(m)
                 => AspirateRefused(m, Outcome(Enter, AspirateCall(m, v), f))

FilledInTwo(m, s) == s.err = "none" /\ Vol(s, m) = MaxVol(m)

\* a homed machine with an empty pipette that has aspirated 1 ul and is
\* about to aspirate the rest in a second call, after which a third is refused
C7_Witness ==
    \E m \in Attached :
        /\ DOMAIN _current_position = Axes
        /\ Vol(Enter, m) = 1
        /\ _position[of_plunger(m)] =
              _plunger_position(_attached_instruments[m], 1, "aspirate")
        /\ FilledInTwo(m, Outcome(Enter,
                                  AspirateCall(m, <<MaxVolume - 1>>), 0))
        /\ AspirateRefused(m, Outcome(Enter,
                                      AspirateCall(m, <<MaxVolume>>), 0))

\* the one move a dispense sends puts the plunger where volume 0 is
TargetsVolumeZero(m, s) ==
    \A i \in 1..Len(IssuedMoves(s)) :
        IssuedMoves(s)[i].arg[of_plunger(m)] =
            _plunger_position(_attached_instruments[m], 0, "dispense")

DispensesAll(m, s) ==
    /\ Vol(s, m) = 0
    /\ TargetsVolumeZero(m, s)
    /\ Len(IssuedMoves(s)) <= 1
    /\ Vol(Enter, m) # 0 /\ DOMAIN _current_position = Axes
          => Len(IssuedMoves(s)) = 1

\* C8: a dispense of more than the pipette holds, or of no stated volume,
\* leaves the volume at 0, and the move it sends puts the plunger at the
\* position for volume 0.
C8_DispenseClamp ==
    \A m \in Attached : \A f \in 0..1 :
        /\ \A v \in IntVolumes :
              v[1] > Vol(Enter, m)
                 => DispensesAll(m, Outcome(Enter, DispenseCall(m, v), f))
        /\ DispensesAll(m, Outcome(Enter, DispenseCall(m, NoVolume), f))

\* a homed machine whose pipette holds 1 ul and is asked for more
C8_Witness ==
    \E m \in Attached :
        /\ DOMAIN _current_position = Axes
        /\ Vol(Enter, m) = 1
        /\ Vol(Outcome(Enter, DispenseCall(m, <<MaxVolume + 1>>), 0), m) = 0
        /\ Outcome(Enter, DispenseCall(m, <<MaxVolume + 1>>), 0).err = "none"
        /\ Len(IssuedMoves(Outcome(Enter,
                               DispenseCall(m, <<MaxVolume + 1>>), 0))) = 1

\* the volume the call moves: what aspirate adds, what dispense removes
Amount(c) ==
    LET p == _attached_instruments[c.mount]
        v == c.args.volume
    IN  IF c.op = "aspirate"
        THEN (IF v = NoVolume THEN available_volume(p) ELSE v[1])
        ELSE (IF v = NoVolume THEN p.current_volume
              ELSE IF p.current_volume <= v[1] THEN p.current_volume
              ELSE v[1])

OnlyVolumeChanged(c, s) ==
    /\ \A m \in Mounts \ {c.mount} : s.instr[m] = _attached_instruments[m]
    /\ s.instr[c.mount] =
          [_attached_instruments[c.mount] EXCEPT
              !.current_volume = Vol(s, c.mount)]

PlungerMoveOutcome(c, s) ==
    /\ OnlyVolumeChanged(c, s)
    /\ FailedCmd(s, "move") => s.err = "BackendError"
    /\ s.err \in {"BackendError", "KeyError", "MustHomeError"}
          => Vol(s, c.mount) = 0
    /\ s.err = "none" =>
          /\ ~BackendRaised(s)
          /\ Vol(s, c.mount) =
                IF c.op = "aspirate" THEN Vol(Enter, c.mount) + Amount(c)
                ELSE Vol(Enter, c.mount) - Amount(c)
    /\ s.err \in {"none", "BackendError", "KeyError", "MustHomeError",
                  "AssertionError"}

\* C9: when the plunger move of an aspirate or a dispense raises, the call
\* raises the same error and the pipette's volume is 0; when it succeeds,
\* the volume has changed by the amount aspirated or dispensed, and nothing
\* else about either pipette has changed.
C9_VolumeResetOnFailure ==
    \A c \in CallsOf("aspirate") \cup CallsOf("dispense") :
        c.mount \in Attached =>
            \A f \in FailAt(c) : PlungerMoveOutcome(c, Outcome(Enter, c, f))

FailedAndReset(c, s) ==
    /\ FailedCmd(s, "move")
    /\ s.err = "BackendError"
    /\ Vol(s, c.mount) = 0

\* a homed machine whose pipette holds liquid, on which the plunger move of
\* a dispense is about to fail
C9_Witness ==
    \E c \in CallsOf("dispense") :
        /\ c.mount \in Attached
        /\ DOMAIN _current_position = Axes
        /\ Vol(Enter, c.mount) = MaxVolume
        /\ c.args.volume = <<1>>
        /\ Allowed(c, 1)
        /\ FailedAndReset(c, Outcome(Enter, c, 1))
        /\ Vol(Outcome(Enter, c, 0), c.mount) = MaxVolume - 1

BlowOutEmpties(m, s) ==
    /\ Vol(s, m) = 0
    /\ FailedCmd(s, "move") => s.err = "BackendError"
    /\ s.err = "none" => Len(IssuedMoves(s)) = 1 /\ ~BackendRaised(s)

\* C10: a blow_out on a mount with a pipette leaves the pipette's volume at
\* 0 whether or not its plunger move raises, and when the move raises the
\* call raises the same error.
C10_BlowOutZeroesVolume ==
    \A m \in Attached : \A f \in 0..1 :
        BlowOutEmpties(m, Outcome(Enter, Call("blow_out", m, NoArgs), f))

\* a homed machine whose pipette holds liquid, on which the plunger move of
\* a blow_out is about to fail
C10_Witness ==
    \E m \in Attached :
        /\ DOMAIN _current_position = Axes
        /\ Vol(Enter, m) > 0
        /\ Allowed(Call("blow_out", m, NoArgs), 1)
        /\ FailedCmd(Outcome(Enter, Call("blow_out", m, NoArgs), 1), "move")
        /\ Outcome(Enter, Call("blow_out", m, NoArgs), 1).err = "BackendError"
        /\ Vol(Outcome(Enter, Call("blow_out", m, NoArgs), 1), m) = 0

----------------------------------------------------------------------------
(* Properties: preconditions of the liquid-handling calls *)

LiquidCalls ==
    UNION {CallsOf(op) : op \in {"aspirate", "dispense", "blow_out",
                                 "pick_up_tip", "drop_tip"}}

\* the call raised e before any backend command and changed nothing
RefusedWith(s, e) ==
    /\ s.err = e
    /\ s.issued = <<>>
    /\ s.pos = _current_position
    /\ s.bpos = _position
    /\ s.instr = _attached_instruments
    /\ s.lmm = _last_moved_mount

\* C11: aspirate, dispense, blow_out, pick_up_tip and drop_tip on a mount
\* with no cached instrument all raise PipetteNotAttachedError before any
\* backend command is issued, and change neither the position cache nor any
\* pipette state
C11_NotAttachedRefused ==
    \A c \in LiquidCalls : \A f \in FailAt(c) :
        _attached_instruments[c.mount] = None
            => RefusedWith(Outcome(Enter, c, f), "PipetteNotAttachedError")

----------------------------------------------------------------------------
(* Properties: retraction of the other mount *)

\* the fast-home commands among the backend commands of a call
Retractions(s) == SelectSeq(s.issued, LAMBDA i : i.cmd = "fast_home")

\* the call issued one retraction, of mount a with margin 10, and then the
\* backend move
RetractedThenMoved(s, a) ==
    /\ Len(s.issued) = 2
    /\ s.issued[1].cmd = "fast_home"
    /\ s.issued[1].arg = <<by_mount(a), Mm(10)>>
    /\ s.issued[1].ok
    /\ s.issued[2].cmd = "move"

\* what a move c2 made after the move c1 left s1 issues
SecondMoveRetracts(c1, c2, s2) ==
    IF c2.mount # c1.mount THEN RetractedThenMoved(s2, c1.mount)
    ELSE Retractions(s2) = <<>>

MoveThenMove(c1, c2, s1) ==
    s1.err = "none" => SecondMoveRetracts(c1, c2, Outcome(Reenter(s1), c2, 0))

\* C12: on a homed robot a move_to/move_rel on mount A followed by a
\* move_to/move_rel on mount B # A issues exactly one retraction of A (fast
\* home of A's Z axis, margin 10) and issues it before B's backend move; on
\* the same mount the second move issues no retraction; a move made while no
\* mount has moved since construction issues none
C12_RetractionPolicy ==
    ~must_home(Enter) =>
        \A c1 \in MoveCalls :
            /\ _last_moved_mount = NoMount
                 => Retractions(Outcome(Enter, c1, 0)) = <<>>
            /\ \A c2 \in MoveCalls :
                 MoveThenMove(c1, c2, Outcome(Enter, c1, 0))

C12_Witness ==
    /\ ~must_home(Enter)
    /\ \E c1 \in MoveCalls : \E c2 \in MoveCalls :
          /\ c1.mount # c2.mount
          /\ Allowed(c1, 0)
          /\ Outcome(Enter, c1, 0).err = "none"
          /\ Outcome(Reenter(Outcome(Enter, c1, 0)), c2, 0).err = "none"
          /\ RetractedThenMoved(Outcome(Reenter(Outcome(Enter, c1, 0)), c2, 0),
                                c1.mount)

\* C13: every move_to or move_rel call on mount M that gets past the cache
\* check leaves _last_moved_mount = M when it returns or raises, also when
\* the move itself or the retraction of the other mount before it raised
C13_LastMovedMountRecorded ==
    ~must_home(Enter) =>
        \A c \in MoveCalls : \A f \in FailAt(c) :
            Outcome(Enter, c, f).lmm = c.mount

----------------------------------------------------------------------------
(* Two tasks on the event loop: the coroutines step by step *)

\* one step of a coroutine's remaining program
Prim(p, mount, a) == [p |-> p, mount |-> mount, a |-> a]

\* the target move_to computes (lines 569-579)
move_to_position(k, mount, abs_position, cp_override) ==
    LET offset == IF mount = "LEFT" THEN mount_offset ELSE <<0, 0, 0>>
        cp == _critical_point_for(k, mount, cp_override)
    IN  [ax \in {"X", "Y", by_mount(mount)} |->
            CASE ax = "X" -> abs_position[1] - offset[1] - cp[1]
              [] ax = "Y" -> abs_position[2] - offset[2] - cp[2]
              [] OTHER -> abs_position[3] - offset[3] - cp[3]]

\* the target move_rel computes from the cache (lines 597-605)
move_rel_position(pos, mount, delta) ==
    [ax \in {"X", "Y", by_mount(mount)} |->
        CASE ax = "X" -> pos["X"] + delta[1]
          [] ax = "Y" -> pos["Y"] + delta[2]
          [] OTHER -> pos[by_mount(mount)] + delta[3]]

\* the target _move_plunger computes from the cache (lines 626-634)
all_axes_pos(pos, mount, dist) ==
    [ax \in {"X", "Y", by_mount(mount), of_plunger(mount)} |->
        IF ax = of_plunger(mount) THEN dist ELSE pos[ax]]

\* await self._move(target_position, speed=..., home_flagged_axes=...)
MovePrim(h, target_position, speed, flagged) ==
    Prim("_move", h.mount,
         [target_position |-> target_position, speed |-> speed,
          home_flagged_axes |-> flagged, from |-> h])

MoveRelPrim(mount, delta, speed) ==
    Prim("move_rel", mount, [delta |-> delta, speed |-> speed])

MovePlungerPrim(mount, dist, speed) ==
    Prim("_move_plunger", mount, [dist |-> dist, speed |-> speed])

RetractPrim(mount, margin) == Prim("retract", mount, [margin |-> margin])

\* _shake_off_tips as the moves it awaits
ShakeOffProg(mount) ==
    << MoveRelPrim(mount, <<-SHAKE_OFF_TIPS_DISTANCE, 0, 0>>,
                   <<SHAKE_OFF_TIPS_SPEED>>),
       MoveRelPrim(mount, <<2 * SHAKE_OFF_TIPS_DISTANCE, 0, 0>>,
                   <<SHAKE_OFF_TIPS_SPEED>>),
       MoveRelPrim(mount, <<-SHAKE_OFF_TIPS_DISTANCE, 0, 0>>,
                   <<SHAKE_OFF_TIPS_SPEED>>),
       MoveRelPrim(mount, <<0, 0, DROP_TIP_RELEASE_DISTANCE>>, NoSpeed) >>

\* the press cycles i..presses-1 of pick_up_tip as the moves they await
RECURSIVE PressProg(_, _, _, _, _)
PressProg(instr, mount, i, presses, increment) ==
    IF i >= presses THEN <<>>
    ELSE << MoveRelPrim(mount, <<0, 0, press_dist(instr, increment, i)>>,
                        <<PICK_UP_SPEED>>),
            MoveRelPrim(mount, <<0, 0, -press_dist(instr, increment, i)>>,
                        NoSpeed) >>
         \o PressProg(instr, mount, i + 1, presses, increment)

PickUpTipProg(instr, c) ==
    << MovePlungerPrim(c.mount, config(instr).plunger_positions.bottom,
                       NoSpeed) >>
    \o PressProg(instr, c.mount, 0, c.args.presses, Mm(1))
    \o << Prim("add_tip", c.mount, [tip_length |-> c.args.tip_length]) >>
    \o (IF "needs-pickup-shake" \in config(instr).quirks
        THEN ShakeOffProg(c.mount) \o ShakeOffProg(c.mount) ELSE <<>>)
    \o << RetractPrim(c.mount, config(instr).pick_up_distance) >>

DropTipProg(instr, c) ==
    << MovePlungerPrim(c.mount, config(instr).plunger_positions.bottom,
                       NoSpeed),
       MovePlungerPrim(c.mount, config(instr).plunger_positions.drop_tip,
                       <<config(instr).drop_tip_speed>>) >>
    \o ShakeOffProg(c.mount)
    \o << Prim("remove_tip", c.mount, NoArgs) >>
    \o (IF c.args.home_after
        THEN << Prim("fast_home", c.mount,
                     [margin |-> safety_margin(instr)]),
                MovePlungerPrim(c.mount, safety_margin(instr), NoSpeed) >>
        ELSE <<>>)

\* the body of public coroutine c as the steps it goes through
Program(instr, c) ==
    CASE c.op = "home" -> << Prim("home", c.mount, c.args) >>
      [] c.op = "move_to" ->
            << Prim("move_to", c.mount,
                    [abs_position |-> c.args.abs_position,
                     critical_point |-> c.args.critical_point,
                     speed |-> NoSpeed]) >>
      [] c.op = "move_rel" ->
            << MoveRelPrim(c.mount, c.args.delta, NoSpeed) >>
      [] c.op = "retract" -> << RetractPrim(c.mount, c.args.margin) >>
      [] c.op = "blow_out" ->
            << MovePlungerPrim(c.mount,
                               config(instr).plunger_positions.blow_out,
                               NoSpeed),
               Prim("set_current_volume", c.mount, [new_volume |-> 0]) >>
      [] c.op = "pick_up_tip" -> PickUpTipProg(instr, c)
      [] c.op = "drop_tip" -> DropTipProg(instr, c)

\* what the checks at the top of coroutine c raise
Precondition(instr, c) ==
    CASE c.op = "blow_out" ->
            IF instr = None THEN "PipetteNotAttachedError" ELSE "none"
      [] c.op = "pick_up_tip" ->
            IF instr = None THEN "AssertionError"
            ELSE IF instr.has_tip THEN "AssertionError" ELSE "none"
      [] c.op = "drop_tip" ->
            IF instr = None THEN "AssertionError"
            ELSE IF ~instr.has_tip THEN "AssertionError" ELSE "none"
      [] OTHER -> "none"

\* the task a coroutine call creates
Started(instr, c) ==
    IF Precondition(instr, c) # "none"
    THEN [pc |-> "done", call |-> c, prog |-> <<>>, cmds |-> 0,
          err |-> Precondition(instr, c)]
    ELSE [pc |-> "running", call |-> c, prog |-> Program(instr, c),
          cmds |-> 0, err |-> "none"]

\* k: the task with the cache it reads and the pipette and last-moved-mount
\* state its code changes
Raised(k, e) ==
    [k EXCEPT !.task.pc = "done", !.task.err = e, !.task.prog = <<>>]
Waiting(k) == [k EXCEPT !.task.pc = "waiting"]
Popped(k) == [k EXCEPT !.task.prog = Tail(@)]
WithHead(k, h) == [k EXCEPT !.task.prog = <<h>> \o Tail(@)]

\* the same move once the other mount has been retracted
After(h) == [h EXCEPT !.p = IF @ = "move_to" THEN "move_to_after"
                            ELSE "move_rel_after"]

\* the part of move_to / move_rel after _cache_and_maybe_retract_mount has
\* retracted: the mount is recorded, the target computed, _move awaited
Targeted(k, h) ==
    IF h.p = "move_to_after"
    THEN Waiting(WithHead(k,
            MovePrim(h, move_to_position(k, h.mount, h.a.abs_position,
                                         h.a.critical_point),
                     h.a.speed, TRUE)))
    ELSE IF ~({"X", "Y", by_mount(h.mount)} \subseteq DOMAIN k.pos)
    THEN Raised(k, "MustHomeError")
    ELSE Waiting(WithHead(k,
            MovePrim(h, move_rel_position(k.pos, h.mount,
                                          h.a.delta),
                     h.a.speed, TRUE)))

\* the code a task runs without being suspended: from where it is to the
\* next motion-lock acquisition, or to its end
RECURSIVE Run(_)
RunHead(k, h) ==
    CASE h.p = "add_tip" ->
            Run(Popped([k EXCEPT !.instr[h.mount] =
                    set_current_volume(add_tip(@, h.a.tip_length), 0)]))
      [] h.p = "remove_tip" ->
            Run(Popped([k EXCEPT !.instr[h.mount] =
                    remove_tip(set_current_volume(@, 0))]))
      [] h.p = "set_current_volume" ->
            Run(Popped([k EXCEPT !.instr[h.mount] =
                    set_current_volume(@, h.a.new_volume)]))
      [] h.p \in {"move_to", "move_rel"} ->
            IF DOMAIN k.pos = {} THEN Raised(k, "MustHomeError")
            ELSE IF h.mount # k.lmm /\ k.lmm # NoMount
            THEN Waiting([k EXCEPT !.task.prog =
                    <<RetractPrim(k.lmm, RETRACT_MARGIN), After(h)>>
                        \o Tail(@)])
            ELSE Targeted([k EXCEPT !.lmm = h.mount], After(h))
      [] h.p \in {"move_to_after", "move_rel_after"} ->
            Targeted([k EXCEPT !.lmm = h.mount], h)
      [] h.p = "_move_plunger" ->
            IF ~({"X", "Y", by_mount(h.mount)}
                    \subseteq DOMAIN k.pos)
            THEN Raised(k, "KeyError")
            ELSE Waiting(WithHead(k,
                    MovePrim(h, all_axes_pos(k.pos, h.mount,
                                             h.a.dist),
                             h.a.speed, FALSE)))
      [] OTHER -> Waiting(k)

Run(k) ==
    IF k.task.prog = <<>> THEN [k EXCEPT !.task.pc = "done"]
    ELSE RunHead(k, Head(k.task.prog))

----------------------------------------------------------------------------
(* TaskSpec: the state machine of the two tasks *)

\* the coroutines a task can be given
TaskCalls ==
    UNION {CallsOf(op) : op \in {"home", "move_to", "move_rel", "retract",
                                 "blow_out", "pick_up_tip", "drop_tip"}}

\* a lock that any task can take at any time
lock_ignored(holder) == TRUE

\* asyncio.Lock: acquire returns only while no task holds the lock
lock_free(holder) == holder = NoTask

\* the backend.home calls home makes under the lock: the gantry axes, then
\* the plunger axes, each only if there are any
HomeGroups(axes) ==
    SelectSeq(<<checked_axes(axes) \cap gantry_axes,
                checked_axes(axes) \ gantry_axes>>, LAMBDA g : g # {})

\* the backend commands step h issues while it holds the lock
CommandsOf(h) == IF h.p = "home" THEN Len(HomeGroups(h.a.axes)) ELSE 1

\* the last backend command of step h has returned: the backend position
\* and the cache as the locked block leaves them
Completed(h, cmds) ==
    CASE h.p = "_move" ->
            _move(Enter, h.a.target_position, h.a.speed,
                  h.a.home_flagged_axes, 0)
      [] h.p = "retract" -> retract(Enter, h.mount, h.a.margin, 0)
      [] h.p = "fast_home" ->
            cache_from_backend(
                backend_fast_home(Enter, of_plunger(h.mount), h.a.margin, 0))
      [] h.p = "home" ->
            cache_from_backend(
                home_axes(Enter, HomeGroups(h.a.axes)[cmds], 0))

\* the task's own state and the fields its unlocked code assigns
Settle(t, k) ==
    /\ tasks' = [tasks EXCEPT ![t] = k.task]
    /\ _attached_instruments' = k.instr
    /\ _last_moved_mount' = k.lmm

\* the locked block ends: cache written, lock released, and the task runs
\* on to its next lock acquisition
Release(t, r) ==
    /\ _current_position' = r.pos
    /\ _position' = r.bpos
    /\ _motion_lock' = NoTask
    /\ Settle(t, Run([pos |-> r.pos, instr |-> _attached_instruments,
                      lmm |-> _last_moved_mount,
                      task |-> [tasks[t] EXCEPT !.pc = "running",
                                                !.cmds = 0,
                                                !.prog = Tail(@)]]))

\* a homed robot with its instruments cached and nothing running:
\* __init__, cache_instruments() and home() have returned
TaskInit ==
    /\ instrument_offset = DefaultOffsets
    /\ gantry_calibration \in Calibrations
    /\ sim_attached \in SimulatorAttached
    /\ _position = HOME_POSITION
    /\ _current_position = _deck_from_smoothie(HOME_POSITION)
    /\ _attached_instruments = [mount \in Mounts |->
            IF sim_attached[mount] # "None"
            THEN Pipette(sim_attached[mount], instrument_offset[mount]) ELSE None]
    /\ _last_moved_mount = NoMount
    /\ failures = 0
    /\ _motion_lock = NoTask
    /\ tasks = [t \in Tasks |-> IdleTask]
    /\ _strict_attached = TRUE
    /\ _run_flag = FALSE
    /\ paused = FALSE
    /\ tc = TCPoller

\* the loop starts coroutine c as task t, which runs to its first lock
\* acquisition
Start(t) ==
    \E c \in TaskCalls :
        /\ tasks[t].pc = "idle"
        /\ Settle(t, Run([pos |-> _current_position,
                          instr |-> _attached_instruments,
                          lmm |-> _last_moved_mount,
                          task |-> Started(_attached_instruments[c.mount],
                                           c)]))
        /\ UNCHANGED <<_current_position, _position, _motion_lock,
                       gantry_calibration, sim_attached, failures, settings>>

\* async with self._motion_lock: the task takes the lock and sends the
\* first backend command of the block
Acquire(t) ==
    /\ tasks[t].pc = "waiting"
    /\ lock_free(_motion_lock)
    /\ _motion_lock' = t
    /\ tasks' = [tasks EXCEPT ![t].pc = "in_flight", ![t].cmds = 1]
    /\ UNCHANGED <<_current_position, _position, _attached_instruments,
                   _last_moved_mount, gantry_calibration, sim_attached,
                   failures, settings>>

\* a backend command returns with another one to send in the same block
\* (home: the gantry axes, then the plungers)
BackendReturnsMidBlock(t) ==
    /\ tasks[t].pc = "in_flight"
    /\ tasks[t].cmds < CommandsOf(Head(tasks[t].prog))
    /\ _position' = home_axes(Enter,
                        HomeGroups(Head(tasks[t].prog).a.axes)[tasks[t].cmds],
                        0).bpos
    /\ tasks' = [tasks EXCEPT ![t].cmds = @ + 1]
    /\ UNCHANGED <<_current_position, _attached_instruments, _motion_lock,
                   _last_moved_mount, gantry_calibration, sim_attached,
                   failures, settings>>

\* the last backend command of the block returns
BackendReturns(t) ==
    /\ tasks[t].pc = "in_flight"
    /\ tasks[t].cmds = CommandsOf(Head(tasks[t].prog))
    /\ Release(t, Completed(Head(tasks[t].prog), tasks[t].cmds))
    /\ UNCHANGED <<gantry_calibration, sim_attached, failures, settings>>

TaskNext ==
    \E t \in Tasks :
        \/ Start(t)
        \/ Acquire(t)
        \/ BackendReturnsMidBlock(t)
        \/ BackendReturns(t)

TaskSpec == TaskInit /\ [][TaskNext]_vars

----------------------------------------------------------------------------
(* Properties: the motion lock and concurrent tasks *)

\* the state the two tasks start from, as the record a call steps through
Homed ==
    [pos |-> _deck_from_smoothie(HOME_POSITION), bpos |-> HOME_POSITION,
     instr |-> [mount \in Mounts |->
                    IF sim_attached[mount] # "None"
                    THEN Pipette(sim_attached[mount], instrument_offset[mount]) ELSE None],
     lmm |-> NoMount, err |-> "none", issued |-> <<>>, n |-> 0, ret |-> <<>>,
     warned |-> FALSE]

\* the cache after call c1 has run to completion and then call c2
Serial(c1, c2) == Outcome(Reenter(Outcome(Homed, c1, 0)), c2, 0).pos

\* the motion-mutating operations that take the lock once or, with a
\* retraction or a second home command, in one uninterrupted call
MotionCalls ==
    UNION {CallsOf(op) : op \in {"home", "move_to", "move_rel", "retract",
                                 "blow_out"}}

\* both tasks have finished and the cache is the one a serial run leaves
SerialCache ==
    (\A t \in Tasks : tasks[t].pc = "done" /\ tasks[t].call \in MotionCalls)
        => _current_position \in
              {Serial(tasks["t1"].call, tasks["t2"].call),
               Serial(tasks["t2"].call, tasks["t1"].call)}

\* the backend move a relative move has in flight goes to cache + delta
RelativeTargetFresh(h) ==
    h.p = "_move" /\ h.a.from.p = "move_rel_after"
        => h.a.target_position
              = move_rel_position(_current_position, h.mount,
                                  h.a.from.a.delta)

InBlock(t) == tasks[t].pc = "in_flight"

\* the step changed the backend position or the cache, and it is a step of
\* the task that holds the lock
WriteByHolder ==
    (_current_position' # _current_position \/ _position' # _position)
        => \E t \in Tasks :
              /\ _motion_lock = t
              /\ InBlock(t)
              /\ \A u \in Tasks \ {t} : tasks'[u] = tasks[u]

C16_LockScopeOneCommand ==
    \A t \in Tasks : _motion_lock = t => tasks[t].cmds <= 1

----------------------------------------------------------------------------
(* Properties: picking up and dropping tips *)

Increments == {Mm(1), Mm(2)}

\* mount m holds a pipette without a tip and the robot is homed
ReadyToPickUp(m) ==
    /\ _attached_instruments[m] # None
    /\ ~_attached_instruments[m].has_tip
    /\ DOMAIN _current_position = Axes

\* the gantry moves among the backend commands of a call
GantryMoves(s) ==
    SelectSeq(s.issued, LAMBDA i : i.cmd = "move" /\ i.home_flagged_axes)

\* the raw Z the backend is sent for deck height z over the point of c0
RawZ(c0, z) ==
    apply_transform(gantry_calibration, <<c0.pos["X"], c0.pos["Y"], z>>)[3]

\* press i of the call went down by depth from the height of c0 and came
\* back up to it
PressedTo(moves, m, c0, i, depth) ==
    /\ moves[2 * i + 1].arg[by_mount(m)]
          = RawZ(c0, c0.pos[by_mount(m)] - depth)
    /\ moves[2 * i + 1].speed = <<PICK_UP_SPEED>>
    /\ moves[2 * i + 2].arg[by_mount(m)] = RawZ(c0, c0.pos[by_mount(m)])
    /\ moves[2 * i + 1].ok /\ moves[2 * i + 2].ok

\* c0: the state the first press starts from; r: what the press loop leaves
DepthSchedule(m, n, inc, c0, r) ==
    /\ r.err = "none"
    /\ Len(GantryMoves(r)) = 2 * n
    /\ \A i \in 0..(n - 1) :
          PressedTo(GantryMoves(r), m, c0, i,
                    config(c0.instr[m]).pick_up_distance + inc * i)
    /\ r.pos[by_mount(m)] = c0.pos[by_mount(m)]

\* pick_up_tip up to its press loop: the plunger is at the bottom
PlungerAtBottom(m) ==
    _move_plunger(plunger_current_set(Enter, m), m,
                  config(Enter.instr[m]).plunger_positions.bottom,
                  NoSpeed, 0)

\* the state the first press moves from: the other mount is out of the way
FirstPressFrom(m) == _cache_and_maybe_retract_mount(PlungerAtBottom(m), m, 0)

\* the press loop of pick_up_tip
PressLoop(m, n, inc) == press_cycles(PlungerAtBottom(m), m, 0, n, inc, 0)

\* C17: for presses = n, pick_up_tip issues for i = 0..n-1 in order one
\* relative downward Z move of pick_up_distance + increment * i followed by
\* one relative upward Z move of the same distance, so that the net Z
\* displacement over the press cycles is zero
C17_PressDepthSchedule ==
    \A m \in Mounts : \A n \in 1..PressesChecked : \A inc \in Increments :
        ReadyToPickUp(m)
            => DepthSchedule(m, n, inc, FirstPressFrom(m),
                             PressLoop(m, n, inc))

\* three presses of a pipette with pick_up_distance 10 and increment 1 go
\* down by 10, 11 and 12
ThreePresses(m, c0, r) ==
    /\ r.err = "none"
    /\ config(c0.instr[m]).pick_up_distance = Mm(10)
    /\ Len(GantryMoves(r)) = 6
    /\ PressedTo(GantryMoves(r), m, c0, 0, Mm(10))
    /\ PressedTo(GantryMoves(r), m, c0, 1, Mm(11))
    /\ PressedTo(GantryMoves(r), m, c0, 2, Mm(12))

C17_Witness ==
    \E m \in Mounts :
        /\ ReadyToPickUp(m)
        /\ ThreePresses(m, FirstPressFrom(m), PressLoop(m, 3, Mm(1)))

PickUpCalls == CallsOf("pick_up_tip")

\* the call raised before any backend command and changed nothing
Refused(s) ==
    /\ s.err # "none"
    /\ s.issued = <<>>
    /\ s.pos = _current_position
    /\ s.bpos = _position
    /\ s.instr = _attached_instruments
    /\ s.lmm = _last_moved_mount

\* the pipette holds the tip the call was given, and no liquid
TipRegistered(c, s) ==
    /\ s.instr[c.mount].has_tip
    /\ s.instr[c.mount].current_tip_length = c.args.tip_length
    /\ s.instr[c.mount].current_volume = 0

\* every press and backup move of the call was sent and returned
AllPressesSucceeded(c, s) ==
    /\ Len(GantryMoves(s)) >= 2 * c.args.presses
    /\ \A i \in 1..(2 * c.args.presses) : GantryMoves(s)[i].ok

PickUpOutcome(c, s) ==
    IF _attached_instruments[c.mount].has_tip THEN Refused(s)
    ELSE /\ s.err = "none" => TipRegistered(c, s)
         /\ s.instr[c.mount].has_tip => AllPressesSucceeded(c, s)

\* C18: pick_up_tip on a pipette that already has a tip fails before any
\* backend command and changes no state; when it succeeds the pipette has a
\* tip, current_tip_length is the tip_length argument and current_volume is
\* 0; the tip is registered only after every press/backup cycle succeeded
C18_PickUpTipPrecondition ==
    \A c \in PickUpCalls : \A f \in FailAt(c) :
        _attached_instruments[c.mount] # None
            => PickUpOutcome(c, Outcome(Enter, c, f))

\* the call fails in a press cycle and leaves the pipette without a tip
FailedInPress(c, s) ==
    /\ s.err = "BackendError"
    /\ Len(GantryMoves(s)) >= 1
    /\ ~s.instr[c.mount].has_tip

C18_Witness ==
    \E c \in PickUpCalls :
        /\ ReadyToPickUp(c.mount)
        /\ Allowed(c, 0)
        /\ Outcome(Enter, c, 0).err = "none"
        /\ TipRegistered(c, Outcome(Enter, c, 0))
        /\ \E f \in FailAt(c) :
              Allowed(c, f) /\ FailedInPress(c, Outcome(Enter, c, f))

DropCalls == CallsOf("drop_tip")

\* mount m holds a pipette with a tip and the robot is homed
ReadyToDrop(m) ==
    /\ _attached_instruments[m] # None
    /\ _attached_instruments[m].has_tip
    /\ DOMAIN _current_position = Axes

\* the backend commands of a call without the retraction of the other mount
OwnSteps(s) ==
    SelectSeq(s.issued,
              LAMBDA i : ~(i.cmd = "fast_home" /\ i.arg[1] \in gantry_axes))

CurrentSet(i, axis, amp) ==
    i.cmd = "set_active_current" /\ i.arg = <<axis, amp>>

PlungerMovedTo(i, m, dist, speed) ==
    /\ i.cmd = "move" /\ ~i.home_flagged_axes /\ i.ok
    /\ i.arg[of_plunger(m)] = dist
    /\ i.speed = speed

ShakeMove(i, speed) ==
    i.cmd = "move" /\ i.home_flagged_axes /\ i.ok /\ i.speed = speed

\* left, right, back to the start, then up: d[5..8]
ShakenOff(d, m) ==
    /\ ShakeMove(d[5], <<SHAKE_OFF_TIPS_SPEED>>)
    /\ ShakeMove(d[6], <<SHAKE_OFF_TIPS_SPEED>>)
    /\ ShakeMove(d[7], <<SHAKE_OFF_TIPS_SPEED>>)
    /\ ShakeMove(d[8], NoSpeed)
    /\ d[5].arg["X"] - d[7].arg["X"] = -SHAKE_OFF_TIPS_DISTANCE
    /\ d[6].arg["X"] - d[7].arg["X"] = SHAKE_OFF_TIPS_DISTANCE
    /\ d[8].arg["X"] = d[7].arg["X"]
    /\ d[8].arg[by_mount(m)] - d[7].arg[by_mount(m)]
          = DROP_TIP_RELEASE_DISTANCE

Distance(a, b) == IF a >= b THEN a - b ELSE b - a

\* |bottom - drop_tip| of pipette p
HomeMargin(p) ==
    Distance(config(p).plunger_positions.bottom,
             config(p).plunger_positions.drop_tip)

\* the steps of a drop_tip that returned, in order
DropSequence(d, m, p, home_after) ==
    /\ Len(d) = IF home_after THEN 11 ELSE 9
    /\ CurrentSet(d[1], of_plunger(m), config(p).plunger_current)
    /\ PlungerMovedTo(d[2], m, config(p).plunger_positions.bottom, NoSpeed)
    /\ CurrentSet(d[3], of_plunger(m), config(p).drop_tip_current)
    /\ PlungerMovedTo(d[4], m, config(p).plunger_positions.drop_tip,
                      <<config(p).drop_tip_speed>>)
    /\ ShakenOff(d, m)
    /\ CurrentSet(d[9], of_plunger(m), config(p).plunger_current)
    /\ home_after =>
          /\ d[10].cmd = "fast_home"
          /\ d[10].arg = <<of_plunger(m), HomeMargin(p)>>
          /\ PlungerMovedTo(d[11], m, HomeMargin(p), NoSpeed)
    /\ \A i \in 1..Len(d) : d[i].cmd # "home"

TipGone(s, m) ==
    ~s.instr[m].has_tip /\ s.instr[m].current_volume = 0

\* the tip is written off exactly when the plunger current has been
\* restored, which is before the plunger home
DropOutcome(c, f, s) ==
    /\ f = 0 => /\ s.err = "none"
                /\ DropSequence(OwnSteps(s), c.mount,
                                _attached_instruments[c.mount],
                                c.args.home_after)
    /\ TipGone(s, c.mount) <=> Len(OwnSteps(s)) >= 9
    /\ ~TipGone(s, c.mount) => s.instr = _attached_instruments

\* C19: drop_tip moves the plunger to bottom, then to the drop-tip position
\* at drop-tip speed under drop-tip current, does one shake-off cycle,
\* restores the plunger current, then sets current_volume to 0 and has_tip
\* to false; with home_after it then fast-homes the plunger axis with margin
\* |bottom - drop_tip| and moves the plunger to that margin; without
\* home_after it issues no plunger home
C19_DropTipOrder ==
    \A c \in DropCalls : \A f \in FailAt(c) :
        ReadyToDrop(c.mount) => DropOutcome(c, f, Outcome(Enter, c, f))

C19_Witness ==
    \E c \in DropCalls :
        /\ ReadyToDrop(c.mount)
        /\ c.args.home_after
        /\ Allowed(c, 0)
        /\ Outcome(Enter, c, 0).err = "none"
        /\ Len(OwnSteps(Outcome(Enter, c, 0))) = 11
        /\ TipGone(Outcome(Enter, c, 0), c.mount)

----------------------------------------------------------------------------
(* ProbeSpec: tip probing on a homed robot *)

ProbeCalls == CallsOf("locate_tip_probe_center")

LocateTipProbeCenter ==
    \E c \in CallsOf("locate_tip_probe_center") : \E f \in FailAt(c) :
        /\ Allowed(c, f)
        /\ Commit(Outcome(Enter, c, f))

ProbeNext ==
    \/ PickUpTip
    \/ DropTip
    \/ MoveTo
    \/ LocateTipProbeCenter

ProbeSpec == TaskInit /\ [][ProbeNext]_vars

----------------------------------------------------------------------------
(* Properties: tip probe *)

Probes(s) == SelectSeq(s.issued, LAMBDA i : i.cmd = "probe")

\* the call failed, sent no probe, and left the tip as it was
RefusedAmbiguous(c, s) ==
    /\ s.err # "none"
    /\ Probes(s) = <<>>
    /\ s.instr[c.mount].has_tip = _attached_instruments[c.mount].has_tip
    /\ s.instr[c.mount].current_tip_length
          = _attached_instruments[c.mount].current_tip_length

\* C20: locate_tip_probe_center on a pipette that already has a tip, called
\* with a tip length as well, fails without probing and without changing
\* the pipette's tip state
C20_AmbiguousTipRefused ==
    \A c \in ProbeCalls : \A f \in FailAt(c) :
        (/\ _attached_instruments[c.mount] # None
         /\ _attached_instruments[c.mount].has_tip
         /\ Given(c.args.tip_length))
            => RefusedAmbiguous(c, Outcome(Enter, c, f))

\* the pipette's tip state after the call is what it was before it
TipStateKept(c, s) ==
    /\ s.instr[c.mount].has_tip = _attached_instruments[c.mount].has_tip
    /\ s.instr[c.mount].current_tip_length
          = _attached_instruments[c.mount].current_tip_length

\* C21: for every call of locate_tip_probe_center on an attached pipette,
\* whether it returns or raises at any motion command of the probing,
\* has_tip and current_tip_length after the call equal their values before
C21_TipStateRestored ==
    \A c \in ProbeCalls : \A f \in FailAt(c) :
        _attached_instruments[c.mount] # None
            => TipStateKept(c, Outcome(Enter, c, f))

\* the same, for the calls the docstring describes: a tip and no length,
\* or a length and no tip
C21_UnambiguousRestored ==
    \A c \in ProbeCalls : \A f \in FailAt(c) :
        (/\ _attached_instruments[c.mount] # None
         /\ _attached_instruments[c.mount].has_tip
                # Given(c.args.tip_length))
            => TipStateKept(c, Outcome(Enter, c, f))

\* the call returned after probing every hotspot, none of the backend's
\* commands having raised
ProbedAll(s) ==
    /\ s.err = "none"
    /\ Len(Probes(s)) = Len(calculate_tip_probe_hotspots(0))
    /\ ~BackendRaised(s)

\* C22: with the simulator's probe, which stops exactly at start + distance,
\* and the hotspots placed symmetrically around the configured center, a
\* locate_tip_probe_center that returns gives back the configured center
C22_ProbeSymmetry ==
    \A c \in ProbeCalls :
        Outcome(Enter, c, 0).err = "none"
            => /\ ProbedAll(Outcome(Enter, c, 0))
               /\ Outcome(Enter, c, 0).ret = <<tip_probe.center>>

\* a probe that returns the center, on a calibration with a skew, started
\* away from the home position
C22_Witness ==
    \E c \in ProbeCalls :
        /\ ProbedAll(Outcome(Enter, c, 0))
        /\ Outcome(Enter, c, 0).ret = <<tip_probe.center>>
        /\ gantry_calibration.skew # 0
        /\ _position # HOME_POSITION

----------------------------------------------------------------------------
(* SettingsSpec, RescanSpec: instrument offsets and rescans on a homed robot *)

\* what the simulator is constructed with: one or two pipettes of either
\* class, or none
SettingsAttached ==
    SimulatorAttached \cup
    { [mount \in Mounts |-> IF mount = "LEFT" THEN "p300_multi" ELSE "p300_single"],
      [mount \in Mounts |-> "None"] }

\* the models and model prefixes a caller requires of a mount
Expectations == {"None", "p10", "p50", "p300", "p300_single"}
Requires == [Mounts -> Expectations]

\* the rescans made here require something of one mount at most
RescanCalls ==
    {Call("cache_instruments", NoMount, [require |-> r]) :
        r \in {q \in Requires : \E m \in Mounts : q[m] = "None"}}

Offsets == { <<Mm(1), Mm(-1), 50>> }
Measured == { <<Mm(291), Mm(298), Mm(75)>> }
OptionalPoints(S) == {NoPoint} \cup {<<p>> : p \in S}

SettingsInit ==
    /\ instrument_offset = DefaultOffsets
    /\ gantry_calibration \in Calibrations
    /\ sim_attached \in SettingsAttached
    /\ _strict_attached \in BOOLEAN
    /\ _position = HOME_POSITION
    /\ _current_position = _deck_from_smoothie(HOME_POSITION)
    /\ _attached_instruments = [mount \in Mounts |->
            IF sim_attached[mount] # "None"
            THEN Pipette(sim_attached[mount], instrument_offset[mount]) ELSE None]
    /\ _last_moved_mount = NoMount
    /\ failures = 0
    /\ _motion_lock = NoTask
    /\ tasks = [t \in Tasks |-> IdleTask]
    /\ _run_flag = FALSE
    /\ paused = FALSE
    /\ tc = TCPoller

Rescan ==
    \E c \in RescanCalls :
        /\ Allowed(c, 0)
        /\ Commit(Outcome(Enter, c, 0))

UpdateInstrumentOffset ==
    \E mount \in Mounts : \E new_offset \in OptionalPoints(Offsets) : \E from_tip_probe \in OptionalPoints(Measured) :
        /\ instrument_offset' = update_instrument_offset(instrument_offset, _attached_instruments, mount, new_offset, from_tip_probe).offs
        /\ _attached_instruments' = update_instrument_offset(instrument_offset, _attached_instruments, mount, new_offset, from_tip_probe).instr
        /\ UNCHANGED <<_current_position, _position, _last_moved_mount, gantry_calibration, sim_attached, failures, _motion_lock, tasks, _strict_attached, _run_flag, paused, tc>>

\* a tip picked up and liquid drawn in with a backend that does not raise
TipPickedUp ==
    \E c \in CallsOf("pick_up_tip") :
        /\ Allowed(c, 0)
        /\ Commit(Outcome(Enter, c, 0))

Aspirated ==
    \E c \in {a \in CallsOf("aspirate") : a.args.volume = <<1>>} :
        /\ Allowed(c, 0)
        /\ Commit(Outcome(Enter, c, 0))

\* a tip probe with a backend that does not raise
Probed ==
    \E c \in ProbeCalls :
        /\ Allowed(c, 0)
        /\ Commit(Outcome(Enter, c, 0))

SettingsNext ==
    \/ Rescan
    \/ UpdateInstrumentOffset
    \/ Probed

SettingsSpec == SettingsInit /\ [][SettingsNext]_vars

RescanNext ==
    \/ Rescan
    \/ TipPickedUp
    \/ Aspirated

RescanSpec == SettingsInit /\ [][RescanNext]_vars

----------------------------------------------------------------------------
(* Properties: instrument offsets *)

\* the stored offset of the mount for the class of its pipette
Stored(u, mount) == u.offs[mount][pip_type(u.instr[mount].model)]
\* the offset the pipette object itself carries
Live(u, mount) == u.instr[mount].instrument_offset

\* the call succeeded and stored and live offset are both the given one;
\* nothing else in the stored offsets or the instruments changed
BothSetTo(u, mount, offset) ==
    /\ u.err = "none"
    /\ Stored(u, mount) = offset
    /\ Live(u, mount) = offset
    /\ Stored(u, mount) = Live(u, mount)
    /\ u.offs = [instrument_offset EXCEPT
                    ![mount][pip_type(_attached_instruments[mount].model)] = offset]
    /\ u.instr = [_attached_instruments EXCEPT
                    ![mount].instrument_offset = offset]

\* C23: on a mount with a pipette, update_instrument_offset with
\* from_tip_probe = m sets the stored offset of the mount and pipette class
\* and the live pipette's offset to the nominal center minus m; with
\* new_offset alone both are set to new_offset; stored and live are then
\* equal; with neither argument it raises ValueError and changes nothing
C23_OffsetUpdate ==
    \A mount \in Mounts :
        _attached_instruments[mount] # None =>
            /\ \A m \in Measured \cup {tip_probe.center} :
                 BothSetTo(update_instrument_offset(instrument_offset,
                               _attached_instruments, mount, NoPoint, <<m>>),
                           mount,
                           [i \in 1..3 |-> tip_probe.center[i] - m[i]])
            /\ \A o \in Offsets \cup {<<0, 0, 0>>} :
                 BothSetTo(update_instrument_offset(instrument_offset,
                               _attached_instruments, mount, <<o>>, NoPoint),
                           mount, o)
            /\ update_instrument_offset(instrument_offset,
                   _attached_instruments, mount, NoPoint, NoPoint)
                 = Updated(instrument_offset, _attached_instruments,
                           "ValueError")

\* an eight-channel pipette whose stored multi-channel offset and live
\* offset are the one derived from a probe result, the single-channel slot
\* of the mount untouched
C23_Witness ==
    \E mount \in Mounts : \E m \in Measured :
        /\ _attached_instruments[mount] # None
        /\ pip_type(_attached_instruments[mount].model) = "multi"
        /\ m # tip_probe.center
        /\ instrument_offset[mount]["multi"]
              = [i \in 1..3 |-> tip_probe.center[i] - m[i]]
        /\ _attached_instruments[mount].instrument_offset
              = instrument_offset[mount]["multi"]
        /\ instrument_offset[mount]["single"] = <<0, 0, 0>>

----------------------------------------------------------------------------
(* Properties: the targets the _move worker takes *)

\* a target for every non-empty set of axes
MoveTargets == UNION { [K -> {Mm(10)}] : K \in SUBSET Axes \ {{}} }

\* X, Y and one of Z and A, or no gantry axis at all
FullTripleOrNone(K) ==
    \/ K \cap gantry_axes = {"X", "Y", "Z"}
    \/ K \cap gantry_axes = {"X", "Y", "A"}
    \/ K \cap gantry_axes = {}

\* the worker sent the move and cached the target
MoveAccepted(r, target) ==
    /\ r.err = "none"
    /\ Len(r.issued) = 1
    /\ r.issued[1].cmd = "move"
    /\ r.pos = Update(_current_position, target)

\* the worker raised before any backend call and left the cache alone
MoveRejected(r) ==
    /\ r.err = "ValueError"
    /\ r.issued = <<>>
    /\ r.pos = _current_position
    /\ r.bpos = _position

\* C24: the _move worker accepts a target exactly when its gantry axes are
\* X, Y and one of Z and A, or when it has no gantry axis; every other
\* target is rejected before any backend call and the cache is unchanged
C24_MoveAxesChecked ==
    \A target \in MoveTargets :
        IF FullTripleOrNone(DOMAIN target)
        THEN MoveAccepted(_move(Enter, target, NoSpeed, TRUE, 0), target)
        ELSE MoveRejected(_move(Enter, target, NoSpeed, TRUE, 0))

\* what the length check does: a target is accepted exactly when it has
\* three gantry axes, whichever they are
C24_MoveCountsAxes ==
    \A target \in MoveTargets :
        IF Cardinality(DOMAIN target \cap gantry_axes) = 3
        THEN MoveAccepted(_move(Enter, target, NoSpeed, TRUE, 0), target)
        ELSE MoveRejected(_move(Enter, target, NoSpeed, TRUE, 0))

----------------------------------------------------------------------------
(* Properties: moves outside the axis bounds *)

\* deck points whose raw X lies beyond the upper bound, below the lower
\* bound, and whose raw Z lies beyond the upper bound
OutsidePoints ==
    { <<Mm(500), Mm(100), Mm(100)>>, <<Mm(-50), Mm(100), Mm(100)>>,
      <<Mm(100), Mm(100), Mm(400)>> }

OutsideCalls ==
    {Call("move_to", m, [abs_position |-> p, critical_point |-> "MOUNT"]) :
        m \in Mounts, p \in OutsidePoints}

\* the target move_to builds for the mount's own reference point
MountTarget(c) ==
    [ax \in {"X", "Y", by_mount(c.mount)} |->
        CASE ax = "X" -> c.args.abs_position[1]
                            - (IF c.mount = "LEFT" THEN mount_offset[1] ELSE 0)
          [] ax = "Y" -> c.args.abs_position[2]
                            - (IF c.mount = "LEFT" THEN mount_offset[2] ELSE 0)
          [] OTHER -> c.args.abs_position[3]
                            - (IF c.mount = "LEFT" THEN mount_offset[3] ELSE 0)]

\* the raw coordinates of that target, straight from the transform
RawTarget(c) ==
    LET raw == apply_transform(gantry_calibration,
                   <<MountTarget(c)["X"], MountTarget(c)["Y"],
                     MountTarget(c)[by_mount(c.mount)]>>)
    IN  [ax \in {"X", "Y", by_mount(c.mount)} |->
            CASE ax = "X" -> raw[1] [] ax = "Y" -> raw[2] [] OTHER -> raw[3]]

LastIssued(s) == s.issued[Len(s.issued)]

\* the move was logged, sent as it stands, and cached as requested
SentAnyway(c, s) ==
    /\ out_of_bounds(RawTarget(c))
    /\ s.warned
    /\ s.err = "none"
    /\ s.issued # <<>>
    /\ LastIssued(s).cmd = "move"
    /\ LastIssued(s).ok
    /\ LastIssued(s).arg = RawTarget(c)
    /\ s.bpos = Update(_cache_and_maybe_retract_mount(Enter, c.mount, 0).bpos,
                       RawTarget(c))
    /\ s.pos = Update(_cache_and_maybe_retract_mount(Enter, c.mount, 0).pos,
                      MountTarget(c))

\* C25: a move whose transformed gantry coordinate lies outside the
\* backend's axis bounds is logged but not rejected: the backend receives
\* the command as computed from the transform, no error is raised, and when
\* the backend succeeds the cache takes the requested target
C25_OutOfBoundsNotRejected ==
    \A c \in OutsideCalls :
        ~must_home(Enter) => SentAnyway(c, Outcome(Enter, c, 0))

\* an out-of-bounds move made after the other mount moved, so that it comes
\* second to a retraction
C25_Witness ==
    \E c \in OutsideCalls :
        /\ ~must_home(Enter)
        /\ _last_moved_mount \notin {NoMount, c.mount}
        /\ Allowed(c, 0)
        /\ SentAnyway(c, Outcome(Enter, c, 0))
        /\ Len(Outcome(Enter, c, 0).issued) = 2
        /\ RawTarget(c)["X"] > axis_bounds["X"][2]

----------------------------------------------------------------------------
(* Properties: critical points that do not exist *)

\* move_to with the critical point given explicitly
MoveToAt(m, cp) ==
    Call("move_to", m,
         [abs_position |-> <<Mm(100), Mm(100), Mm(100)>>,
          critical_point |-> cp])

\* the critical point named by the call is not there: NOZZLE without a
\* pipette, TIP without a tip
Nonexistent(m, cp) ==
    \/ cp = "NOZZLE" /\ _attached_instruments[m] = None
    \/ /\ cp = "TIP"
       /\ _attached_instruments[m] # None
       /\ ~_attached_instruments[m].has_tip

\* the call raised and the backend was sent nothing
ErrorAndNoMotion(s) ==
    /\ s.err # "none"
    /\ s.issued = <<>>
    /\ s.bpos = _position

\* C26: move_to with critical point NOZZLE on a mount with no pipette, or
\* with critical point TIP on a pipette with no tip, results in an error and
\* no motion
C26_CriticalPointMustExist ==
    \A m \in Mounts : \A cp \in {"NOZZLE", "TIP"} :
        (~must_home(Enter) /\ Nonexistent(m, cp))
            => ErrorAndNoMotion(Outcome(Enter, MoveToAt(m, cp), 0))

\* what the code does with such a critical point: the move is made as if
\* the critical point had not been given (NOZZLE for a pipette without a
\* tip, the mount itself without a pipette)
C26_NonexistentIgnored ==
    \A m \in Mounts : \A cp \in {"NOZZLE", "TIP"} :
        (~must_home(Enter) /\ Nonexistent(m, cp))
            => Outcome(Enter, MoveToAt(m, cp), 0)
                  = Outcome(Enter, MoveToAt(m, "None"), 0)

----------------------------------------------------------------------------
(* Properties: the instrument scan *)

\* the model attached to the mount does not match what is expected of it
Mismatch(mount, expected) ==
    /\ expected[mount] # "None"
    /\ sim_attached[mount] # "None"
    /\ ~startswith(sim_attached[mount], expected[mount])

\* what the constructor was told is attached to the mount
AsConstructed(mount) == Found(sim_attached[mount], SimId(mount))

\* expectations that name a model with a configuration, or nothing
KnownExpectations == {e \in Expectations : e = "None" \/ matches(e) # {}}
KnownRequires == [Mounts -> KnownExpectations]

\* the entry of a mount whose instrument is not the expected one: the
\* expected model, with no id
Unverified(entry, expected_instr) ==
    /\ entry.err = "none"
    /\ entry.id = "None"
    /\ entry.model \in matches(expected_instr)
    /\ expected_instr \in configs => entry.model = expected_instr

----------------------------------------------------------------------------
(* Properties: pipettes across a rescan *)

AllRescans == {Call("cache_instruments", NoMount, [require |-> r]) : r \in Requires}

\* a pipette as the constructor leaves it
NewlyCreated(p) ==
    /\ ~p.has_tip
    /\ p.current_tip_length = 0
    /\ p.current_volume = 0

\* every mount holds a new pipette of the model the scan reported, or
\* nothing where the scan reported no model
CachedAsScanned(s, found) ==
    /\ s.err = "none"
    /\ \A mount \in Mounts :
          /\ s.instr[mount] # None <=> found[mount].model # "None"
          /\ s.instr[mount] # None =>
                /\ s.instr[mount].model = found[mount].model
                /\ NewlyCreated(s.instr[mount])

\* C28: after a successful cache_instruments each mount holds a pipette
\* exactly when the scan reports a model for it, and that pipette is newly
\* created (no tip, volume 0) whatever the mount held before; a mount
\* reported empty holds none; when the scan fails the cached instruments
\* are unchanged
C28_RescanReplacesPipettes ==
    \A c \in AllRescans :
        IF scan_error(get_attached_instruments(c.args.require)) = "none"
        THEN CachedAsScanned(Outcome(Enter, c, 0),
                             get_attached_instruments(c.args.require))
        ELSE /\ Outcome(Enter, c, 0).err # "none"
             /\ Outcome(Enter, c, 0).instr = _attached_instruments

\* a pipette with a tip and liquid in it, about to be replaced by a new
\* pipette of the same model; and a rescan that fails
C28_Witness ==
    \E mount \in Mounts :
        /\ _attached_instruments[mount] # None
        /\ _attached_instruments[mount].has_tip
        /\ _attached_instruments[mount].current_volume > 0
        /\ \E c \in AllRescans :
              /\ Outcome(Enter, c, 0).err = "none"
              /\ Outcome(Enter, c, 0).instr[mount] # None
              /\ Outcome(Enter, c, 0).instr[mount].model
                    = _attached_instruments[mount].model
              /\ NewlyCreated(Outcome(Enter, c, 0).instr[mount])
        /\ \E c \in AllRescans : Outcome(Enter, c, 0).err = "RuntimeError"

----------------------------------------------------------------------------
(* PauseSpec: pause, resume and halt between the moves of a homed robot *)

\* API.pause: self._backend.pause()
Pause ==
    /\ _run_flag' = flag_after("pause")
    /\ paused' = TRUE
    /\ UNCHANGED <<_current_position, _position, _attached_instruments, _last_moved_mount, failures, gantry_calibration, sim_attached, _motion_lock, tasks, instrument_offset, _strict_attached, tc>>

\* API.resume: self._backend.resume()
Resume ==
    /\ _run_flag' = flag_after("resume")
    /\ paused' = FALSE
    /\ UNCHANGED <<_current_position, _position, _attached_instruments, _last_moved_mount, failures, gantry_calibration, sim_attached, _motion_lock, tasks, instrument_offset, _strict_attached, tc>>

\* API.halt: self._backend.halt(), then reset (a rescan) and home
Halt ==
    \E f \in 0..2 :
        /\ f = 0 \/ failures < MaxFailures
        /\ _run_flag' = flag_after("halt")
        /\ paused' = FALSE
        /\ Landed(home(cache_instruments(Enter, NoRequire), {}, f))
        /\ UNCHANGED <<gantry_calibration, sim_attached, _motion_lock, tasks, instrument_offset, _strict_attached, tc>>

PauseNext ==
    \/ Pause
    \/ Resume
    \/ Halt
    \/ MoveTo
    \/ MoveRel
    \/ Home

PauseSpec == TaskInit /\ [][PauseNext]_vars

----------------------------------------------------------------------------
(* Properties: pause *)

\* C29: every move issued while the system is paused does not proceed: as
\* long as pause() has been called and resume() has not, the backend
\* position does not change
C29_PausedMovesBlocked == [][(paused /\ paused') => _position' = _position]_vars

----------------------------------------------------------------------------
(* PollerSpec: the thermocycler's poller thread and its callers *)

\* the g-codes of OPEN_LID and GET_LID_STATUS
TCCommands == {"M126", "M119"}

\* everything but the poller
robot == <<_current_position, _position, _attached_instruments, _last_moved_mount, failures, gantry_calibration, sim_attached, _motion_lock, tasks, instrument_offset, _strict_attached, _run_flag, paused>>

\* a caller submits a command
Send ==
    \E command \in TCCommands :
        /\ Len(tc.submitted) < MaxCommands
        /\ tc' = send(tc, command)
        /\ UNCHANGED robot

\* Thermocycler.disconnect, __del__: the poller is told to stop
Close ==
    /\ ~tc.close_called
    /\ tc' = close(tc)
    /\ UNCHANGED robot

\* the device reports that its lid was opened
LidOpened ==
    /\ ~tc.interrupt
    /\ Len(tc.device) < MaxWrites
    /\ tc' = [tc EXCEPT !.interrupt = TRUE]
    /\ UNCHANGED robot

\* the thread runs one turn of its loop; the device answers, or it does not
\* (once at most)
SerialPoller ==
    \E ok \in BOOLEAN :
        /\ tc.alive
        /\ ok \/ ~tc.faulted
        /\ Len(tc.device) < MaxWrites
        /\ tc' = _serial_poller(tc, ok)
        /\ UNCHANGED robot

PollerNext ==
    \/ Send
    \/ Close
    \/ LidOpened
    \/ SerialPoller

\* the thread is scheduled as long as it can run
PollerSpec == Init /\ [][PollerNext]_vars /\ WF_vars(SerialPoller)

----------------------------------------------------------------------------
(* Properties: the thermocycler's send and response *)

\* the submitted commands among what was written to the device
Written == SelectSeq(tc.device, LAMBDA c : c # GET_PLATE_TEMP)

IsPrefix(a, b) == Len(a) <= Len(b) /\ a = SubSeq(b, 1, Len(a))

\* commands reach the device in submission order and once each; callbacks
\* are called in that order, once each, with the answer to their own command
InOrderOnce ==
    /\ IsPrefix(Written, tc.submitted)
    /\ Len(tc.called) <= Len(Written)
    /\ \A i \in 1..Len(tc.called) :
          /\ tc.called[i].command = tc.submitted[i]
          /\ tc.called[i].res = response(tc.submitted[i])

\* the i-th command submitted has been written and its callback called
Answered(i) == Len(Written) >= i /\ Len(tc.called) >= i

\* C30: every command submitted through send(command, callback) is
\* eventually written to the device and its callback called; commands are
\* written in submission order, once each, and each callback gets the
\* response to its own command, once; the poller thread stops only after
\* close() has been called
C30_SendResponse ==
    /\ [](InOrderOnce)
    /\ [](~tc.alive => tc.close_called)
    /\ \A i \in 1..MaxCommands : (Len(tc.submitted) >= i) ~> Answered(i)

\* what the halt file being opened on the send fifo does: no submitted
\* command is ever written to the device and no callback is ever called
C30_NothingSent == [](Written = <<>> /\ tc.called = <<>>)

----------------------------------------------------------------------------
(* Properties: homing *)

\* the groups home sends to the backend, in order
GroupsOf(axes) ==
    LET asked == IF axes = {} THEN {"X", "Y", "Z", "A", "B", "C"} ELSE axes
        gantry == asked \cap {"X", "Y", "Z", "A"}
        plungers == asked \cap {"B", "C"}
    IN  (IF gantry = {} THEN <<>> ELSE <<gantry>>)
            \o (IF plungers = {} THEN <<>> ELSE <<plungers>>)

\* one successful backend home per group and nothing else
HomesIssued(s, groups) ==
    /\ Len(s.issued) = Len(groups)
    /\ \A i \in 1..Len(groups) :
          /\ s.issued[i].cmd = "home"
          /\ s.issued[i].arg = groups[i]
          /\ s.issued[i].ok

\* the backend position after the groups were homed
HomedFrom(bpos, groups) ==
    [ax \in Axes |->
        IF \E i \in 1..Len(groups) : ax \in groups[i]
        THEN HOME_POSITION[ax] ELSE bpos[ax]]

\* the cache is the deck-space image of the raw position
DeckImage(pos, bpos) ==
    /\ DOMAIN pos = Axes
    /\ \A m \in Mounts :
          apply_transform(gantry_calibration,
                          <<pos["X"], pos["Y"], pos[by_mount(m)]>>)
            = <<bpos["X"], bpos["Y"], bpos[by_mount(m)]>>
    /\ \A m \in Mounts : pos[of_plunger(m)] = bpos[of_plunger(m)]

QueriesSucceed(s) ==
    \A q \in CallsOf("current_position") :
        /\ Outcome(Reenter(s), q, 0).err = "none"
        /\ Outcome(Reenter(s), q, 0).ret # <<>>

HomeOutcome(c, s) ==
    /\ s.err = "none"
    /\ HomesIssued(s, GroupsOf(c.args.axes))
    /\ s.bpos = HomedFrom(_position, GroupsOf(c.args.axes))
    /\ s.pos = _deck_from_smoothie(s.bpos)
    /\ DeckImage(s.pos, s.bpos)
    /\ QueriesSucceed(s)

\* C31: a home whose backend commands all succeed issues one backend home
\* per non-empty group of the requested axes (all six by default), the
\* gantry group first, and none for an empty group; it leaves the cache
\* equal to the deck-space image of the position the backend reported, with
\* all six axes, and current_position then succeeds for both mounts
C31_HomeGroupsAndCache ==
    \A c \in CallsOf("home") : HomeOutcome(c, Outcome(Enter, c, 0))

\* a home of one plunger axis alone, on a robot that has moved away from
\* home with a populated cache: one backend home, and a new cache
C31_Witness ==
    \E c \in CallsOf("home") :
        /\ c.args.axes = {"B"}
        /\ Allowed(c, 0)
        /\ ~must_home(Enter)
        /\ _position["X"] # HOME_POSITION["X"]
        /\ _position["B"] # HOME_POSITION["B"]
        /\ Len(Outcome(Enter, c, 0).issued) = 1
        /\ Outcome(Enter, c, 0).pos # _current_position
        /\ HomeOutcome(c, Outcome(Enter, c, 0))

----------------------------------------------------------------------------
(* Properties: the steps of the tip probe *)

\* the moves and probes of a call, without the retraction of the other
\* mount: six for each hotspot
ProbeSteps(s) == SelectSeq(s.issued, LAMBDA i : i.cmd \in {"move", "probe"})

StepsPerHotspot ==
    Len(<<"safe", "approach", "descent", "probe", "retreat", "rise">>)

\* the k-th hotspot's n-th step: to the safe height (1), over to the
\* approach point (2), down (3), the probe (4), the retreat (5), the rise (6)
StepOf(s, k, n) == ProbeSteps(s)[StepsPerHotspot * (k - 1) + n]

\* the deck X and Y of the mount's critical point at the target of a move
DeckXY(s, m, move) ==
    LET offset == IF m = "LEFT" THEN mount_offset ELSE <<0, 0, 0>>
        cp == config(s.instr[m]).model_offset
    IN  <<move.arg["X"] - gantry_calibration.t[1] + offset[1] + cp[1],
          move.arg["Y"] - gantry_calibration.t[2] + offset[2] + cp[2]>>

\* the hotspots measuring axis i (1: x, 2: y) before the k-th one
EarlierOn(hotspots, k, i) ==
    SelectSeq([j \in 1..(k - 1) |-> j],
              LAMBDA j : AxisValue(hotspots[j].axis) = i)

\* what they measured: the rise after a probe goes straight up from the
\* point the probe stopped at
MeasuredBefore(s, m, hotspots, k, i) ==
    [n \in 1..Len(EarlierOn(hotspots, k, i)) |->
        DeckXY(s, m, StepOf(s, EarlierOn(hotspots, k, i)[n], 6))[i]]

\* the mean of whatever was measured, the configured center if nothing was
MeanOfAny(vals, i) ==
    IF vals = <<>> THEN tip_probe.center[i] ELSE SumSeq(vals) \div Len(vals)

\* the mean of a pair of measurements, the configured center otherwise
MeanOfPair(vals, i) ==
    IF Len(vals) = 2 THEN SumSeq(vals) \div Len(vals) ELSE tip_probe.center[i]

ApproachedAround(s, m, hotspots, k, cx, cy) ==
    DeckXY(s, m, StepOf(s, k, 2))
        = <<cx + hotspots[k].x_start_offs, cy + hotspots[k].y_start_offs>>

\* C32: in a tip probe that returns, every hotspot is approached around the
\* running center: on X and on Y the mean of the measurements already made
\* on that axis in this run, one or more, and the configured center only
\* when none has been made
C32_RunningCenter ==
    \A c \in ProbeCalls :
        ProbedAll(Outcome(Enter, c, 0))
            => \A k \in 1..Len(calculate_tip_probe_hotspots(0)) :
                  ApproachedAround(
                      Outcome(Enter, c, 0), c.mount,
                      calculate_tip_probe_hotspots(0), k,
                      MeanOfAny(MeasuredBefore(Outcome(Enter, c, 0), c.mount,
                                    calculate_tip_probe_hotspots(0), k, 1), 1),
                      MeanOfAny(MeasuredBefore(Outcome(Enter, c, 0), c.mount,
                                    calculate_tip_probe_hotspots(0), k, 2), 2))

\* what the loop does: the mean is used once an axis has its two
\* measurements, the configured center until then
C32_CenterOfPairs ==
    \A c \in ProbeCalls :
        ProbedAll(Outcome(Enter, c, 0))
            => \A k \in 1..Len(calculate_tip_probe_hotspots(0)) :
                  ApproachedAround(
                      Outcome(Enter, c, 0), c.mount,
                      calculate_tip_probe_hotspots(0), k,
                      MeanOfPair(MeasuredBefore(Outcome(Enter, c, 0), c.mount,
                                    calculate_tip_probe_hotspots(0), k, 1), 1),
                      MeanOfPair(MeasuredBefore(Outcome(Enter, c, 0), c.mount,
                                    calculate_tip_probe_hotspots(0), k, 2), 2))

\* a single measurement on X that differs from the configured center
C32_OneMeasurementOffCenter ==
    \E c \in ProbeCalls :
        /\ ProbedAll(Outcome(Enter, c, 0))
        /\ MeasuredBefore(Outcome(Enter, c, 0), c.mount,
                          calculate_tip_probe_hotspots(0), 2, 1)
              # <<tip_probe.center[1]>>

\* the tip length the probing runs with
ProbeLength(c) ==
    IF Given(c.args.tip_length) THEN c.args.tip_length[1]
    ELSE _attached_instruments[c.mount].current_tip_length

\* from the mount's deck position to the tip's: the mount offset and the
\* critical point of a pipette carrying a tip of length len
TipShift(m, len) ==
    LET offset == IF m = "LEFT" THEN mount_offset ELSE <<0, 0, 0>>
        model == config(_attached_instruments[m]).model_offset
    IN  <<offset[1] + model[1], offset[2] + model[2],
          offset[3] + model[3] - len>>

Plus(p, q) == <<p[1] + q[1], p[2] + q[2], p[3] + q[3]>>

RawXYZ(m, arg) == <<arg["X"], arg["Y"], arg[by_mount(m)]>>

\* where the tip is when the mount's axes are at raw
TipAt(m, len, raw) ==
    Plus(apply_reverse(gantry_calibration, raw), TipShift(m, len))

\* the tip position a successful move sends the mount to
TipTarget(m, len, step) ==
    IF step.cmd = "move" /\ step.ok
          /\ DOMAIN step.arg = {"X", "Y", by_mount(m)}
    THEN <<TipAt(m, len, RawXYZ(m, step.arg))>>
    ELSE <<>>

\* where the backend's probe stops: the start moved by the distance on the
\* probed axis
StopOf(m, len, descent, hs) ==
    TipAt(m, len,
          [i \in 1..3 |->
              IF i = AxisValue(hs.axis)
              THEN RawXYZ(m, descent.arg)[i] + hs.probe_distance
              ELSE RawXYZ(m, descent.arg)[i]])

\* the bounce distance along the hotspot's axis, against the probe
Retreat(hs) ==
    [i \in 1..3 |->
        IF i # AxisValue(hs.axis) THEN 0
        ELSE IF hs.probe_distance > 0 THEN 0 - tip_probe.bounce_distance
        ELSE tip_probe.bounce_distance]

\* the axis a hotspot is probed along
ProbedAxis(m, hs) ==
    CASE hs.axis = "x" -> "X"
      [] hs.axis = "y" -> "Y"
      [] hs.axis = "z" -> IF m = "LEFT" THEN "Z" ELSE "A"

\* the XY the k-th hotspot starts from: the tip's on entry, or where the
\* probe before it stopped
StartXY(s, m, len, hotspots, k) ==
    IF k = 1
    THEN <<_current_position["X"] + TipShift(m, len)[1],
           _current_position["Y"] + TipShift(m, len)[2]>>
    ELSE <<StopOf(m, len, StepOf(s, k - 1, 3), hotspots[k - 1])[1],
           StopOf(m, len, StepOf(s, k - 1, 3), hotspots[k - 1])[2]>>

\* the six steps of the k-th hotspot
HotspotSteps(s, m, len, hotspots, k) ==
    /\ TipTarget(m, len, StepOf(s, k, 1))
          = << <<StartXY(s, m, len, hotspots, k)[1],
                 StartXY(s, m, len, hotspots, k)[2], safe_z>> >>
    /\ TipTarget(m, len, StepOf(s, k, 2)) # <<>>
    /\ TipTarget(m, len, StepOf(s, k, 2))[1][3] = safe_z
    /\ ApproachedAround(
          s, m, hotspots, k,
          MeanOfPair(MeasuredBefore(s, m, hotspots, k, 1), 1),
          MeanOfPair(MeasuredBefore(s, m, hotspots, k, 2), 2))
    /\ TipTarget(m, len, StepOf(s, k, 3)) # <<>>
    /\ TipTarget(m, len, StepOf(s, k, 3))[1]
          = <<TipTarget(m, len, StepOf(s, k, 2))[1][1],
              TipTarget(m, len, StepOf(s, k, 2))[1][2],
              hotspots[k].z_start_abs>>
    /\ StepOf(s, k, 4).cmd = "probe"
    /\ StepOf(s, k, 4).ok
    /\ StepOf(s, k, 4).arg
          = <<ProbedAxis(m, hotspots[k]), hotspots[k].probe_distance>>
    /\ TipTarget(m, len, StepOf(s, k, 5))
          = << Plus(StopOf(m, len, StepOf(s, k, 3), hotspots[k]),
                    Retreat(hotspots[k])) >>
    /\ TipTarget(m, len, StepOf(s, k, 6))
          = << <<StopOf(m, len, StepOf(s, k, 3), hotspots[k])[1],
                 StopOf(m, len, StepOf(s, k, 3), hotspots[k])[2], safe_z>> >>

\* what the probes stopped at on axis i, in hotspot order
StopsOn(s, m, len, hotspots, i) ==
    [n \in 1..Len(EarlierOn(hotspots, Len(hotspots) + 1, i)) |->
        StopOf(m, len,
               StepOf(s, EarlierOn(hotspots, Len(hotspots) + 1, i)[n], 3),
               hotspots[EarlierOn(hotspots, Len(hotspots) + 1, i)[n]])[i]]

\* every stop is recorded for its axis: the call returns their means
StopsRecorded(s, m, len, hotspots) ==
    s.ret = << [i \in 1..3 |->
                  SumSeq(StopsOn(s, m, len, hotspots, i))
                      \div Len(StopsOn(s, m, len, hotspots, i))] >>

\* a call cut short by a backend failure has sent a prefix of the steps of
\* the call that runs to the end, the last one being the one that raised
StepsArePrefix(r, s) ==
    /\ Len(ProbeSteps(r)) <= Len(ProbeSteps(s))
    /\ \A i \in 1..Len(ProbeSteps(r)) :
          /\ ProbeSteps(r)[i].cmd = ProbeSteps(s)[i].cmd
          /\ ProbeSteps(r)[i].arg = ProbeSteps(s)[i].arg
          /\ ProbeSteps(r)[i].ok = (i < Len(ProbeSteps(r)) \/ r.err = "none")

ProbeSequence(c, s) ==
    /\ Len(ProbeSteps(s))
          = StepsPerHotspot * Len(calculate_tip_probe_hotspots(ProbeLength(c)))
    /\ \A k \in 1..Len(calculate_tip_probe_hotspots(ProbeLength(c))) :
          HotspotSteps(s, c.mount, ProbeLength(c),
                       calculate_tip_probe_hotspots(ProbeLength(c)), k)
    /\ StopsRecorded(s, c.mount, ProbeLength(c),
                     calculate_tip_probe_hotspots(ProbeLength(c)))

\* C33: a tip probe that returns has sent, for each hotspot in the order of
\* the hotspot list, a move to the safe height at the current XY, a move to
\* the approach XY at the safe height, a descent to the start Z, one probe
\* along the hotspot's axis (the mount's own Z axis for a Z hotspot), a
\* retreat of the bounce distance against the probe direction from where
\* the probe stopped, and a rise to the safe height above that stop; the
\* stops are what the call averages and returns; a call cut short by a
\* backend failure has sent a prefix of that sequence
C33_ProbeStepOrder ==
    \A c \in ProbeCalls :
        ProbedAll(Outcome(Enter, c, 0))
            => /\ ProbeSequence(c, Outcome(Enter, c, 0))
               /\ \A f \in FailAt(c) :
                     StepsArePrefix(Outcome(Enter, c, f), Outcome(Enter, c, 0))

\* a probe on the right mount, whose Z hotspot is probed along A, started
\* away from home, and one cut short at its first probe
C33_Witness ==
    \E c \in ProbeCalls :
        /\ c.mount = "RIGHT"
        /\ Allowed(c, 0)
        /\ _position # HOME_POSITION
        /\ ProbedAll(Outcome(Enter, c, 0))
        /\ ProbeSequence(c, Outcome(Enter, c, 0))
        /\ StepOf(Outcome(Enter, c, 0), 5, 4).arg[1] = "A"
        /\ \E f \in FailAt(c) :
              /\ Outcome(Enter, c, f).err = "BackendError"
              /\ Len(ProbeSteps(Outcome(Enter, c, f))) = 4

\* a pipette without a tip, probed without a tip length
BareProbe(c) ==
    /\ _attached_instruments[c.mount] # None
    /\ ~_attached_instruments[c.mount].has_tip
    /\ ~Given(c.args.tip_length)

\* C34: locate_tip_probe_center on an attached pipette that has no tip,
\* called without a tip length, does not fail when no backend command
\* fails: it probes every hotspot
C34_ProbeWithoutTipOrLength ==
    \A c \in ProbeCalls :
        BareProbe(c) => ProbedAll(Outcome(Enter, c, 0))

\* what the call does: the assertion on has_tip fails before any command
\* is sent, and the pipette is left as it was
C34_BareProbeAsserts ==
    \A c \in ProbeCalls : \A f \in FailAt(c) :
        BareProbe(c)
            => /\ Outcome(Enter, c, f).err = "AssertionError"
               /\ Outcome(Enter, c, f).issued = <<>>
               /\ Outcome(Enter, c, f).instr = _attached_instruments
               /\ Outcome(Enter, c, f).pos = _current_position

----------------------------------------------------------------------------
(* QuerySpec: a position query while another task's motion is in flight *)

\* the motions the other task runs
MotionCallsOfTask ==
    UNION {CallsOf(op) : op \in {"home", "move_to", "move_rel"}}

\* a task that has returned or raised
Finished(c, e) ==
    [pc |-> "done", call |-> c, prog |-> <<>>, cmds |-> 0, err |-> e]

\* a task suspended in current_position at async with self._motion_lock
QueryWaiting(c) ==
    [pc |-> "query_waiting", call |-> c, prog |-> <<>>, cmds |-> 0,
     err |-> "none"]

\* the loop starts a home, move_to or move_rel as task t
StartMotion(t) ==
    \E c \in MotionCallsOfTask :
        /\ tasks[t].pc = "idle"
        /\ Settle(t, Run([pos |-> _current_position,
                          instr |-> _attached_instruments,
                          lmm |-> _last_moved_mount,
                          task |-> Started(_attached_instruments[c.mount],
                                           c)]))
        /\ UNCHANGED <<_current_position, _position, _motion_lock,
                       gantry_calibration, sim_attached, failures, settings>>

\* the backend command in flight raises: _move clears the cache in its
\* except branch, home and retract leave it; the lock is released and the
\* exception ends the coroutine
BackendRaises(t) ==
    /\ tasks[t].pc = "in_flight"
    /\ failures < MaxFailures
    /\ _current_position' = IF Head(tasks[t].prog).p = "_move"
                            THEN move_failed(Enter).pos
                            ELSE _current_position
    /\ _motion_lock' = NoTask
    /\ tasks' = [tasks EXCEPT ![t] = Finished(@.call, "BackendError")]
    /\ failures' = failures + 1
    /\ UNCHANGED <<_position, _attached_instruments, _last_moved_mount,
                   gantry_calibration, sim_attached, settings>>

\* current_position is called as task t: the cache is tested, and the task
\* goes through the locked block at once if the lock is free, or waits
CurrentPositionCalled(t) ==
    \E c \in CallsOf("current_position") :
        /\ tasks[t].pc = "idle"
        /\ tasks' = [tasks EXCEPT ![t] =
              IF must_home(Enter) THEN Finished(c, "MustHomeError")
              ELSE IF lock_free(_motion_lock)
              THEN Finished(c, current_position_locked(
                                  Enter, c.mount, c.args.critical_point).err)
              ELSE QueryWaiting(c)]
        /\ UNCHANGED <<_current_position, _position, _attached_instruments,
                       _last_moved_mount, _motion_lock, gantry_calibration,
                       sim_attached, failures, settings>>

\* the lock is released to the waiting current_position, which reads the
\* cache and returns or raises
CurrentPositionReturns(t) ==
    /\ tasks[t].pc = "query_waiting"
    /\ lock_free(_motion_lock)
    /\ tasks' = [tasks EXCEPT ![t] =
          Finished(@.call,
                   current_position_locked(
                       Enter, @.call.mount, @.call.args.critical_point).err)]
    /\ UNCHANGED <<_current_position, _position, _attached_instruments,
                   _last_moved_mount, _motion_lock, gantry_calibration,
                   sim_attached, failures, settings>>

QueryNext ==
    \E t \in Tasks :
        \/ StartMotion(t)
        \/ Acquire(t)
        \/ BackendReturnsMidBlock(t)
        \/ BackendReturns(t)
        \/ BackendRaises(t)
        \/ CurrentPositionCalled(t)
        \/ CurrentPositionReturns(t)

QuerySpec == TaskInit /\ [][QueryNext]_vars

----------------------------------------------------------------------------
(* Properties: position queries during a motion *)

IsQuery(t) ==
    /\ tasks[t].pc # "idle"
    /\ tasks[t].call.op = "current_position"

\* the query that waited is handed the lock only once the operation it
\* waited for has finished
AnsweredAfterOperation(t) ==
    (tasks[t].pc = "query_waiting" /\ lock_free(_motion_lock))
        => \A u \in Tasks \ {t} : tasks[u].pc = "done"

C35_QueryErrors ==
    \A t \in Tasks :
        (IsQuery(t) /\ tasks[t].pc = "done")
            => tasks[t].err \in {"none", "MustHomeError", "KeyError"}

\* a query that waited behind a failed move ends with KeyError
C35_KeyErrorAfterFailedMove ==
    \E t \in Tasks :
        /\ IsQuery(t)
        /\ tasks[t].err = "KeyError"
        /\ \E u \in Tasks \ {t} :
              /\ tasks[u].err = "BackendError"
              /\ tasks[u].call.op \in {"move_to", "move_rel"}

\* a query that waited is answered only after the other task has finished
C35_AnsweredAfterOperation == \A t \in Tasks : AnsweredAfterOperation(t)

----------------------------------------------------------------------------
(* Properties: backend failures in pick_up_tip and drop_tip *)

TipCalls == CallsOf("pick_up_tip") \cup CallsOf("drop_tip")

\* the exception reached the caller, with the cache emptied and the
\* pipette's volume at zero
PropagatedAfterCleanup(c, s) ==
    /\ s.err = "BackendError"
    /\ must_home(s)
    /\ s.instr[c.mount].current_volume = 0

\* C36: when a backend command raises during pick_up_tip or drop_tip, the
\* call raises to its caller, and it leaves the position cache cleared and
\* the pipette's current_volume at 0
C36_TipFailureCleanup ==
    \A c \in TipCalls : \A f \in FailAt(c) :
        BackendRaised(Outcome(Enter, c, f))
            => PropagatedAfterCleanup(c, Outcome(Enter, c, f))

\* the command that raised is the last one the call sent
RaisedLast(s) ==
    /\ s.issued # <<>>
    /\ ~s.issued[Len(s.issued)].ok
    /\ \A i \in 1..(Len(s.issued) - 1) : s.issued[i].ok

\* what the two calls do: the exception always reaches the caller and
\* nothing is sent after it; the cache is cleared when the command that
\* raised is a move and not when it is a fast home
C36_TipFailurePropagates ==
    \A c \in TipCalls : \A f \in FailAt(c) :
        BackendRaised(Outcome(Enter, c, f))
            => /\ Outcome(Enter, c, f).err = "BackendError"
               /\ RaisedLast(Outcome(Enter, c, f))
               /\ FailedCmd(Outcome(Enter, c, f), "move")
                    => must_home(Outcome(Enter, c, f))
               /\ FailedCmd(Outcome(Enter, c, f), "fast_home")
                    => must_home(Outcome(Enter, c, f)) = must_home(Enter)

\* a press of pick_up_tip raises on a pipette that holds liquid: the
\* volume is kept
C36_VolumeKept ==
    \E c \in CallsOf("pick_up_tip") : \E f \in FailAt(c) :
        /\ Allowed(c, f)
        /\ BackendRaised(Outcome(Enter, c, f))
        /\ Outcome(Enter, c, f).instr[c.mount].current_volume > 0

\* the fast home of drop_tip raises: the cache is kept
C36_CacheKept ==
    \E c \in CallsOf("drop_tip") : \E f \in FailAt(c) :
        /\ Allowed(c, f)
        /\ FailedCmd(Outcome(Enter, c, f), "fast_home")
        /\ ~must_home(Outcome(Enter, c, f))

----------------------------------------------------------------------------
(* RetrySpec: the thermocycler driver sends one command, with retries *)

DEFAULT_COMMAND_RETRIES == 3

\* what happens on the serial connection
Event(op, answered) == [op |-> op, answered |-> answered]

\* the driver with its connection open and no command sent yet: pc is
\* where _send_command is, results what its callers got back so far
Driver ==
    [pc |-> "idle", cmd |-> "", retries |-> 0, events |-> <<>>,
     results |-> <<>>]

\* _send_command: self._recursive_write_and_return(command_line, timeout,
\* DEFAULT_COMMAND_RETRIES)
send_command(d, command) ==
    [d EXCEPT !.pc = "writing", !.cmd = command,
              !.retries = DEFAULT_COMMAND_RETRIES, !.events = <<>>]

\* serial_communication.write_and_return returned the device's answer,
\* which goes back up through every level of the recursion
answered(d) ==
    [d EXCEPT !.pc = "idle",
              !.events = Append(@, Event("write", TRUE)),
              !.results = Append(@, [cmd |-> d.cmd, events |-> Append(d.events, Event("write", TRUE)),
                                     ret |-> response(d.cmd),
                                     err |-> "none"])]

\* an except branch that asks for another attempt whatever the count
serial_no_response_retried(d) == [d EXCEPT !.pc = "reconnecting"]

\* except SerialNoResponse as e: retries -= 1; if retries <= 0: raise e
serial_no_response(d) ==
    IF d.retries - 1 <= 0
    THEN [d EXCEPT !.pc = "idle", !.retries = @ - 1,
                   !.results = Append(@, [cmd |-> d.cmd, events |-> d.events,
                                          ret |-> <<>>,
                                          err |-> "SerialNoResponse"])]
    ELSE [d EXCEPT !.pc = "reconnecting", !.retries = @ - 1]

\* serial_communication.write_and_return raised SerialNoResponse
unanswered(d) ==
    serial_no_response([d EXCEPT !.events = Append(@, Event("write", FALSE))])

\* sleep; self._connection.close(); self._connection.open(); and the
\* recursive call
reconnected(d) ==
    [d EXCEPT !.pc = "writing",
              !.events = @ \o <<Event("close", TRUE), Event("open", TRUE)>>]

RetryInit ==
    /\ _current_position = EmptyCache
    /\ _attached_instruments = [mount \in Mounts |-> None]
    /\ _last_moved_mount = NoMount
    /\ gantry_calibration \in Calibrations
    /\ _position = HOME_POSITION
    /\ sim_attached \in SimulatorAttached
    /\ failures = 0
    /\ _motion_lock = NoTask
    /\ tasks = [t \in Tasks |-> IdleTask]
    /\ instrument_offset = DefaultOffsets
    /\ _strict_attached = TRUE
    /\ _run_flag = FALSE
    /\ paused = FALSE
    /\ tc = Driver

\* the poller thread calls _send_command
SendCommand ==
    \E command \in TCCommands \cup {GET_PLATE_TEMP} :
        /\ tc.pc = "idle"
        /\ Len(tc.results) < MaxCommands
        /\ tc' = send_command(tc, command)
        /\ UNCHANGED robot

\* the device answers within the timeout
WriteAnswered ==
    /\ tc.pc = "writing"
    /\ Len(tc.events) < MaxEvents
    /\ tc' = answered(tc)
    /\ UNCHANGED robot

\* the timeout passes without an answer
WriteUnanswered ==
    /\ tc.pc = "writing"
    /\ Len(tc.events) < MaxEvents
    /\ tc' = unanswered(tc)
    /\ UNCHANGED robot

Reconnect ==
    /\ tc.pc = "reconnecting"
    /\ tc' = reconnected(tc)
    /\ UNCHANGED robot

RetryNext ==
    \/ SendCommand
    \/ WriteAnswered
    \/ WriteUnanswered
    \/ Reconnect

\* the thread keeps running: a write returns or times out, and the except
\* branch runs on
RetrySpec ==
    /\ RetryInit
    /\ [][RetryNext]_vars
    /\ WF_vars(WriteAnswered \/ WriteUnanswered)
    /\ WF_vars(Reconnect)

----------------------------------------------------------------------------
(* Properties: the thermocycler's retries *)

Writes(events) == SelectSeq(events, LAMBDA e : e.op = "write")

\* attempts are separated by a close and an open of the connection, in
\* that order, and nothing else happens on it
ReconnectedBetween(events) ==
    \A i \in 1..Len(events) :
        events[i].op = CASE i % 3 = 1 -> "write"
                         [] i % 3 = 2 -> "close"
                         [] OTHER -> "open"

\* only the last attempt can have been answered
OnlyLastAnswered(events) ==
    \A i \in 1..(Len(Writes(events)) - 1) : ~Writes(events)[i].answered

AttemptsBounded(events) ==
    /\ Len(Writes(events)) <= 3
    /\ ReconnectedBetween(events)
    /\ OnlyLastAnswered(events)

\* what a caller got: the answer of the first attempt the device answered,
\* or SerialNoResponse after three attempts without an answer
ResultOf(r) ==
    /\ AttemptsBounded(r.events)
    /\ Writes(r.events) # <<>>
    /\ r.events[Len(r.events)].op = "write"
    /\ IF r.events[Len(r.events)].answered
       THEN r.err = "none" /\ r.ret = <<"ok", r.cmd>>
       ELSE r.err = "SerialNoResponse" /\ r.ret = <<>> /\ Len(Writes(r.events)) = 3

RetryBounded ==
    /\ AttemptsBounded(tc.events)
    /\ \A i \in 1..Len(tc.results) : ResultOf(tc.results[i])

\* C37: for one command the driver writes to the device at most three
\* times, closes and reopens the connection between consecutive attempts,
\* returns the answer of the first attempt that is answered and raises
\* SerialNoResponse after the third attempt that is not; every command
\* sent ends in one of the two
C37_RetryTerminates ==
    /\ [](RetryBounded)
    /\ \A n \in 0..(MaxCommands - 1) :
          (tc.pc = "writing" /\ Len(tc.results) = n)
              ~> (tc.pc = "idle" /\ Len(tc.results) = n + 1)

\* a command given up after three attempts and two reconnections, then a
\* command answered at its second attempt
C37_Witness ==
    /\ Len(tc.results) = 2
    /\ tc.results[1].err = "SerialNoResponse"
    /\ Len(tc.results[1].events) = 7
    /\ tc.results[2].err = "none"
    /\ Len(tc.results[2].events) = 4

----------------------------------------------------------------------------
(* Properties: the cache and the backend's position *)

\* the cached deck position of mount m maps onto the raw X, Y and Z of m
MountAgrees(m) ==
    apply_transform(gantry_calibration,
                    <<_current_position["X"], _current_position["Y"],
                      _current_position[by_mount(m)]>>)
        = <<_position["X"], _position["Y"], _position[by_mount(m)]>>

\* C38: between calls, whenever the position cache is not empty it is the
\* deck-space image of the backend's raw position, the gantry axes through
\* the gantry transform and the plunger axes as they are, whatever calls
\* were made before and whichever of their backend commands failed
C38_CacheMatchesBackend ==
    ~must_home(Enter) => DeckImage(_current_position, _position)

\* what holds as long as no backend command has failed: X and Y, the
\* plungers and the Z of the mount moved last agree with the backend
C38_MovedMountMatches ==
    (~must_home(Enter) /\ failures = 0)
        => /\ DOMAIN _current_position = Axes
           /\ \A m \in Mounts :
                 _current_position[of_plunger(m)] = _position[of_plunger(m)]
           /\ IF _last_moved_mount = NoMount
              THEN \A m \in Mounts : MountAgrees(m)
              ELSE MountAgrees(_last_moved_mount)

\* no backend command has failed, and the cached Z of a mount is not the
\* image of its raw Z: the gantry moved in X with the other mount
C38_StaleZ ==
    /\ ~must_home(Enter)
    /\ failures = 0
    /\ \E m \in Mounts : ~MountAgrees(m)

\* a backend command has failed, and the cached X is not the image of the
\* raw X
C38_StaleAfterFailure ==
    /\ ~must_home(Enter)
    /\ failures > 0
    /\ _current_position["X"] + gantry_calibration.t[1] # _position["X"]

----------------------------------------------------------------------------
(* MovesSpec: move_to and move_rel calls of two tasks, the lock handed over
   in the order the tasks asked for it *)

ConcurrentMoves == CallsOf("move_to") \cup CallsOf("move_rel")

\* the task holds the lock and its backend command is in flight
InFlight(task) == [task EXCEPT !.pc = "in_flight", !.cmds = 1]

\* the tasks suspended in acquire(), apart from t
Waiters(t) == {u \in Tasks \ {t} : tasks[u].pc = "waiting"}

\* a coroutine has run up to its first lock acquisition: acquire() returns
\* at once when nobody holds the lock, and suspends the task otherwise
Entered(t, k) ==
    /\ _attached_instruments' = k.instr
    /\ _last_moved_mount' = k.lmm
    /\ tasks' = [tasks EXCEPT ![t] =
          IF k.task.pc = "waiting" /\ lock_free(_motion_lock)
          THEN InFlight(k.task) ELSE k.task]
    /\ _motion_lock' =
          IF k.task.pc = "waiting" /\ lock_free(_motion_lock)
          THEN t ELSE _motion_lock

\* the locked block of t ends with the cache and backend position of r and t
\* runs on as k: release() wakes the task that waits, and t, if it asks for
\* the lock again, waits behind it; with nobody waiting t takes the lock
\* again at once
HandedOver(t, r, k) ==
    /\ _current_position' = r.pos
    /\ _position' = r.bpos
    /\ _attached_instruments' = k.instr
    /\ _last_moved_mount' = k.lmm
    /\ tasks' = [u \in Tasks |->
          IF u \in Waiters(t) THEN InFlight(tasks[u])
          ELSE IF u # t THEN tasks[u]
          ELSE IF Waiters(t) = {} /\ k.task.pc = "waiting"
          THEN InFlight(k.task) ELSE k.task]
    /\ _motion_lock' =
          IF Waiters(t) # {} THEN CHOOSE u \in Waiters(t) : TRUE
          ELSE IF k.task.pc = "waiting" THEN t ELSE NoTask

\* the loop runs a move_to or move_rel as task t, which has nothing running
MoveCalled(t) ==
    \E c \in ConcurrentMoves :
        /\ tasks[t].pc \in {"idle", "done"}
        /\ c.op = "move_rel"
              => IF must_home(Enter) THEN TRUE
                 ELSE WithinTravel(Enter, c.mount, c.args.delta)
        /\ Entered(t, Run([pos |-> _current_position,
                           instr |-> _attached_instruments,
                           lmm |-> _last_moved_mount,
                           task |-> Started(_attached_instruments[c.mount],
                                            c)]))
        /\ UNCHANGED <<_current_position, _position, gantry_calibration,
                       sim_attached, failures, settings>>

\* the backend command of t returns
CommandReturns(t) ==
    /\ tasks[t].pc = "in_flight"
    /\ HandedOver(t, Completed(Head(tasks[t].prog), 1),
                  Run([pos |-> Completed(Head(tasks[t].prog), 1).pos,
                       instr |-> _attached_instruments,
                       lmm |-> _last_moved_mount,
                       task |-> [tasks[t] EXCEPT !.pc = "running",
                                                 !.cmds = 0,
                                                 !.prog = Tail(@)]]))
    /\ UNCHANGED <<gantry_calibration, sim_attached, failures, settings>>

MovesNext ==
    \E t \in Tasks :
        \/ MoveCalled(t)
        \/ CommandReturns(t)

MovesSpec == TaskInit /\ [][MovesNext]_vars

----------------------------------------------------------------------------
(* Properties: the two mounts under concurrent moves *)

OtherMount(m) == IF m = "LEFT" THEN "RIGHT" ELSE "LEFT"

\* task t has sent its gantry move to the backend
GantryMoveInFlight(t) ==
    /\ tasks[t].pc = "in_flight"
    /\ Head(tasks[t].prog).p = "_move"

Retracted(m) == _position[by_mount(m)] = HOME_POSITION[by_mount(m)]

\* while a gantry move for a mount is in flight the other mount is up
OtherMountRetracted ==
    \A t \in Tasks :
        GantryMoveInFlight(t) => Retracted(OtherMount(tasks[t].call.mount))

\* the move that returns last, every call being finished then, is for the
\* mount the coordinator remembers as moved last
LastMoveRecorded ==
    \A t \in Tasks :
        (/\ GantryMoveInFlight(t)
         /\ \A u \in Tasks : tasks'[u].pc \in {"idle", "done"})
            => _last_moved_mount' = tasks[t].call.mount

C39_OtherMountUp == [](OtherMountRetracted)

C39_LastMoveKept == [][LastMoveRecorded]_vars

\* the same two calls made one after the other: the second one finds the
\* first mount recorded and retracts it before it moves
C39_SequentialMovesRetract ==
    \A c1, c2 \in ConcurrentMoves :
        (/\ c1.mount # c2.mount
         /\ Outcome(Reenter(Outcome(Homed, c1, 0)), c2, 0).err = "none")
            => /\ Outcome(Reenter(Outcome(Homed, c1, 0)), c2, 0).lmm = c2.mount
               /\ Outcome(Reenter(Outcome(Homed, c1, 0)), c2, 0).bpos[by_mount(c1.mount)]
                     = HOME_POSITION[by_mount(c1.mount)]
               /\ Outcome(Reenter(Outcome(Homed, c1, 0)), c2, 0).issued[1].cmd
                     = "fast_home"

----------------------------------------------------------------------------
(* Properties: a move followed by a position query *)

RoundTripPoints == Points \cup { <<Mm(50), Mm(20), Mm(150)>> }

MovesTo ==
    {Call("move_to", m, [abs_position |-> p, critical_point |-> cp]) :
        m \in Mounts, p \in RoundTripPoints, cp \in CriticalPoints}

\* the gantry_position call for the mount and critical point of move c
QueryOf(c) ==
    Call("gantry_position", c.mount,
         [critical_point |-> c.args.critical_point])

\* the coordinator after move c has returned
Moved(c) == Reenter(Outcome(Enter, c, 0))

\* C40: on a homed robot, for every mount, point P and critical point, a
\* move_to that succeeds followed at once by gantry_position for the same
\* mount and critical point returns P, and the pipettes, their tips
\* included, are what they were before the move
C40_MoveQueryRoundTrip ==
    \A c \in MovesTo :
        (~must_home(Enter) /\ Outcome(Enter, c, 0).err = "none")
            => /\ Outcome(Moved(c), QueryOf(c), 0).err = "none"
               /\ Outcome(Moved(c), QueryOf(c), 0).ret
                     = <<c.args.abs_position>>
               /\ Outcome(Moved(c), QueryOf(c), 0).instr
                     = _attached_instruments
               /\ Outcome(Moved(c), QueryOf(c), 0).issued = <<>>

\* the left pipette carries a tip and has been moved to P by its mount and
\* by its tip: the cache holds neither P nor the same point twice
C40_Witness ==
    /\ ~must_home(Enter)
    /\ _attached_instruments["LEFT"] # None
    /\ _attached_instruments["LEFT"].has_tip
    /\ \A c \in MovesTo :
          c.mount = "LEFT"
              => /\ Outcome(Enter, c, 0).err = "none"
                 /\ Outcome(Moved(c), QueryOf(c), 0).ret
                       = <<c.args.abs_position>>
                 /\ Moved(c).pos["X"] # c.args.abs_position[1]
    /\ \A c, d \in MovesTo :
          (c.mount = "LEFT" /\ d.mount = "LEFT"
             /\ c.args.abs_position = d.args.abs_position
             /\ c.args.critical_point # d.args.critical_point)
              => Moved(c).pos["Z"] # Moved(d).pos["Z"]

====
